---- MODULE Spec2Model ----
(***************************************************************************)
(* A model of geopandas.GeoDataFrame (src/geopandas/geodataframe.py): the  *)
(* active-geometry registry (_geometry_column_name), the CRS tag carried   *)
(* by each geometry array, and the sharing of geometry arrays between      *)
(* tables.                                                                 *)
(*                                                                         *)
(* A geometry array is a cell of `heap`; its content is its CRS tag and   *)
(* its values, `xy`: where the coordinates come from, followed by the      *)
(* reprojections <<from, to>> applied to them.  A                          *)
(* table is a record [cls, geo, cols]: its class, its                      *)
(* _geometry_column_name and, per column name, the column's kind           *)
(*   "absent" - no such column                                             *)
(*   "plain"  - a column whose values cannot be coerced to geometry        *)
(*   "obj"    - an object-dtype column of shapely geometries (coercible)   *)
(*   "geom"   - a GeometryDtype column, backed by the heap cell `arr`.     *)
(* Two columns with the same `arr` share one GeometryArray object.         *)
(***************************************************************************)
EXTENDS Integers, Sequences, FiniteSets, TLC

\* Number of heap cells for geometry arrays (a bound of the model).
MaxArr == 10

\* Number of calls in a behaviour (a bound of the model).  A behaviour is a
\* script of calls; a call that raises ends it.
MaxCalls == 3

NoneV == "None"
Free == [crs |-> "free", xy |-> <<>>]
Names == {"geometry", "geom2", "a"}
NameSeq == <<"geometry", "geom2", "a">>
CRSs == {"EPSG:4326", "EPSG:3857"}
CRSopt == CRSs \cup {NoneV}
Slots == {"t1", "t2"}
ArrIds == 1..MaxArr

VARIABLES
    PANDAS_GE_30,   \* the build: pandas >= 3 (copy-on-write) or older
    heap,           \* heap[i]: CRS tag and values of geometry array i, or Free; cell 0 = overflow
    tables,         \* slot -> table record, or NoTable
    ext,            \* heap cell of a GeometryArray object the caller holds
    copyOf,         \* slot -> the slot it is an untouched deep copy of, or NoneV
    last,           \* the last call: operation, arguments, outcome
    calls,          \* number of calls made so far
    rows            \* the rows of the table in slot t1, where they are followed

vars == <<PANDAS_GE_30, heap, tables, ext, copyOf, last, calls, rows>>

AbsentCol == [k |-> "absent", arr |-> 0]
PlainCol == [k |-> "plain", arr |-> 0]
ObjCol == [k |-> "obj", arr |-> 0]
NoTable == [cls |-> "none", geo |-> NoneV, cols |-> [n \in Names |-> AbsentCol]]

Other(s) == IF s = "t1" THEN "t2" ELSE "t1"

\* ------------------------------------------------------------------ heap

\* The lowest free cell; 0 (the overflow cell) when there is none.
Alloc(h) ==
    IF \E i \in ArrIds : h[i] = Free
    THEN CHOOSE i \in ArrIds : h[i] = Free /\ \A j \in ArrIds : h[j] = Free => i <= j
    ELSE 0

\* array.crs = v: the array i is retagged, its values stay.
HSet(h, i, v) == [h EXCEPT ![i].crs = v]

\* A GeometryArray object: its CRS tag and its values.
Cell(crs, xy) == [crs |-> crs, xy |-> xy]

\* A new array object in cell i.
HPut(h, i, cell) == [h EXCEPT ![i] = cell]

TableArrs(t) == {t.cols[n].arr : n \in {m \in Names : t.cols[m].k = "geom"}}

\* The arrays a table or the caller's variable e refers to.
LiveArrs(tabs, e) == UNION {TableArrs(tabs[s]) : s \in Slots} \cup {e}

\* The heap with every array outside live collected.
Collect(h, live) == [i \in 0..MaxArr |-> IF i \in live THEN h[i] ELSE Free]

\* Arrays no table and no caller variable refers to are collected.
Normalize(h, tabs, e) == Collect(h, LiveArrs(tabs, e))

\* ------------------------------------------------------------ values

\* A value handed to a coercion or an assignment: `ser` (a Series rather than a
\* bare array/list), its kind, the array behind it (0: a fresh object nobody
\* else holds, whose CRS is `crs`), and the Series name.
Level(ser, k, arr, crs, name) ==
    [ser |-> ser, k |-> k, arr |-> arr, crs |-> crs, name |-> name, xy |-> <<"list">>]

LevelCrs(h, lv) == IF lv.arr = 0 THEN lv.crs ELSE h[lv.arr].crs

\* The values of a level: its own when it is a fresh object (`xy`), else the
\* ones of the array behind it.
LevelXy(h, lv) == IF lv.arr = 0 THEN lv.xy ELSE h[lv.arr].xy

HasCol(t, n) == n \in Names /\ t.cols[n].k # "absent"

GeomCols(t) == {n \in Names : t.cols[n].k = "geom"}

\* Invariant I1 of a table: an active name that is set names a column of
\* geometry dtype.
I1(t) == t.geo # NoneV => HasCol(t, t.geo) /\ t.cols[t.geo].k = "geom"

\* frame[col] for an existing column: a Series over the column's own array.
ColSeries(t, n) == [Level(TRUE, t.cols[n].k, t.cols[n].arr, NoneV, n) EXCEPT !.xy = <<n>>]

\* ------------------------------------------------- registry and CRS proxy

\* GeoDataFrame._get_geometry: the active column, AttributeError when the
\* active name is unset or names no column.
GetGeometry(t) ==
    IF ~HasCol(t, t.geo)
    THEN [err |-> "AttributeError"]
    ELSE [err |-> "none", col |-> t.cols[t.geo]]

\* CrsGet reading None, instead of raising, when there is no active geometry
\* column.
CrsGetDangling(h, t) ==
    IF HasCol(t, t.geo) /\ t.cols[t.geo].k = "geom"
    THEN [err |-> "none", crs |-> h[t.cols[t.geo].arr].crs]
    ELSE [err |-> "none", crs |-> NoneV]

\* GeoDataFrame.crs (getter): self.geometry.crs; a plain Series has no crs
\* attribute, so every failure surfaces as AttributeError.
CrsGet(h, t) ==
    IF GetGeometry(t).err # "none" \/ t.cols[t.geo].k # "geom"
    THEN [err |-> "AttributeError"]
    ELSE [err |-> "none", crs |-> h[t.cols[t.geo].arr].crs]

\* getattr(self, "crs", None)
CrsOrNone(h, t) == IF CrsGet(h, t).err = "none" THEN CrsGet(h, t).crs ELSE NoneV

\* EnsureGeometry letting values that are no geometries through, uncoerced.
EnsureGeometryUnchecked(h, data, crs) ==
    IF data.k = "geom"
    THEN [err |-> "none", h |-> h,
          data |-> IF LevelCrs(h, data) = NoneV /\ crs # NoneV
                   THEN [data EXCEPT !.arr = 0, !.crs = crs, !.xy = LevelXy(h, data)]
                   ELSE data]
    ELSE IF data.k = "obj"
    THEN [err |-> "none", h |-> h,
          data |-> [data EXCEPT !.k = "geom", !.arr = 0, !.crs = crs]]
    ELSE [err |-> "none", h |-> h, data |-> data]

\* EnsureGeometry tagging untagged geometry data where it is, without the
\* copy.
EnsureGeometryInPlace(h, data, crs) ==
    IF data.k = "geom"
    THEN [err |-> "none",
          h |-> IF LevelCrs(h, data) = NoneV /\ crs # NoneV /\ data.arr # 0
                THEN HSet(h, data.arr, crs) ELSE h,
          data |-> IF LevelCrs(h, data) = NoneV /\ crs # NoneV /\ data.arr = 0
                   THEN [data EXCEPT !.crs = crs] ELSE data]
    ELSE IF data.k = "obj"
    THEN [err |-> "none", h |-> h,
          data |-> [data EXCEPT !.k = "geom", !.arr = 0, !.crs = crs]]
    ELSE [err |-> "TypeError", h |-> h, data |-> data]

\* _ensure_geometry(data, crs): geometry-typed data is returned as it is, or
\* as a tagged copy when it has no CRS and one is given; other data goes
\* through from_shapely (a new array tagged crs), which raises TypeError on
\* values that are no geometries.
EnsureGeometry(h, data, crs) ==
    IF data.k = "geom"
    THEN [err |-> "none", h |-> h,
          data |-> IF LevelCrs(h, data) = NoneV /\ crs # NoneV
                   THEN [data EXCEPT !.arr = 0, !.crs = crs, !.xy = LevelXy(h, data)]
                   ELSE data]
    ELSE IF data.k = "obj"
    THEN [err |-> "none", h |-> h,
          data |-> [data EXCEPT !.k = "geom", !.arr = 0, !.crs = crs]]
    ELSE [err |-> "TypeError", h |-> h, data |-> data]

\* A geometry column stored under key as a new array, cell i.
StoreCopy(h, t, key, cell, i) ==
    [h |-> HPut(h, i, cell), t |-> [t EXCEPT !.cols[key] = [k |-> "geom", arr |-> i]]]

\* pandas DataFrame.__setitem__ as GeoDataFrame.__setitem__ calls it: the
\* column is replaced.  A Series is stored without a copy under pandas >= 3
\* (its array stays shared with its owner); anything else is copied.
PandasSetItem(h, t, key, lv, pd30) ==
    IF lv.k = "geom"
    THEN IF lv.arr # 0 /\ lv.ser /\ pd30
         THEN [h |-> h, t |-> [t EXCEPT !.cols[key] = [k |-> "geom", arr |-> lv.arr]]]
         ELSE StoreCopy(h, t, key, Cell(LevelCrs(h, lv), LevelXy(h, lv)), Alloc(h))
    ELSE [h |-> h, t |-> [t EXCEPT !.cols[key] = [k |-> lv.k, arr |-> 0]]]

\* GeoDataFrame._persist_old_default_geometry_colname
PersistOldDefault(t) ==
    IF t.geo = NoneV /\ ~HasCol(t, "geometry")
    THEN [t |-> [t EXCEPT !.geo = "geometry"], warn |-> "FutureWarning"]
    ELSE [t |-> t, warn |-> "none"]

\* The outcome of an assignment: the stored frame and the warning issued.
Warned(s, w) == [h |-> s.h, t |-> s.t, warn |-> w]

\* __setitem__, lines 1955-1965, for the active column: e is what
\* _ensure_geometry made of the value.
SetItemActive(h, t, key, value, e, pd30) ==
    IF e.err = "TypeError"
    THEN Warned(PandasSetItem(h, t, key, value, pd30), "NotGeometry")
    ELSE IF key = "geometry"
    THEN Warned(PandasSetItem(e.h, PersistOldDefault(t).t, key, e.data, pd30),
                PersistOldDefault(t).warn)
    ELSE Warned(PandasSetItem(e.h, t, key, e.data, pd30), "none")

\* A single geometry handed over as a value.
ScalarGeom == [Level(FALSE, "obj", 0, NoneV, NoneV) EXCEPT !.xy = <<"scalar">>]

IsScalar(value) == value.xy = <<"scalar">>

\* __setitem__, lines 1947-1948: a scalar becomes a list of one value per
\* row.
Broadcast(value) == IF IsScalar(value) THEN [value EXCEPT !.xy = <<"list">>] ELSE value

\* SetItem coercing the value without the CRS of the table.
SetItemNoCrs(h, t, key, value, pd30) ==
    IF key = t.geo \/ (key = "geometry" /\ t.geo = NoneV)
    THEN SetItemActive(h, t, key, Broadcast(value),
                       EnsureGeometry(h, Broadcast(value), NoneV), pd30)
    ELSE Warned(PandasSetItem(h, t, key, Broadcast(value), pd30), "none")

\* GeoDataFrame.__setitem__; for a key that is not the active column
\* pandas does the broadcasting.
SetItem(h, t, key, value, pd30) ==
    IF key = t.geo \/ (key = "geometry" /\ t.geo = NoneV)
    THEN SetItemActive(h, t, key, Broadcast(value),
                       EnsureGeometry(h, Broadcast(value), CrsOrNone(h, t)), pd30)
    ELSE Warned(PandasSetItem(h, t, key, Broadcast(value), pd30), "none")

\* ------------------------------------------------------------------ copy

\* GeometryArray.copy for column n of the frame c.t: a new array, cell j,
\* with the same CRS tag and values.
CopyCell(c, n, j) ==
    [h |-> HPut(c.h, j, c.h[c.t.cols[n].arr]), t |-> [c.t EXCEPT !.cols[n].arr = j]]

\* A deep copy of the columns from position i on: every geometry array is
\* copied.
RECURSIVE CopyCols(_, _)
CopyCols(c, i) ==
    IF i > Len(NameSeq) THEN c
    ELSE CopyCols(IF c.t.cols[NameSeq[i]].k = "geom"
                  THEN CopyCell(c, NameSeq[i], Alloc(c.h))
                  ELSE c,
                  i + 1)

\* pandas DataFrame.copy(deep): a shallow copy keeps the same array objects.
PandasCopy(h, t, deep) ==
    IF deep THEN CopyCols([h |-> h, t |-> t], 1) ELSE [h |-> h, t |-> t]

\* The frame c.t as a GeoDataFrame whose active name is g.
AsGdf(c, g) == [h |-> c.h, t |-> [c.t EXCEPT !.cls = "GeoDataFrame", !.geo = g]]

\* GeoDataFrame.copy: pandas' copy finalized from self, the class and the
\* name restored when pandas fell back to a plain DataFrame.
Copy(h, t, deep) == AsGdf(PandasCopy(h, t, deep), t.geo)

\* ---------------------------------------------------------- set_geometry

NameArg(n) == [kind |-> "name", name |-> n]
\* A two-dimensional argument (a table) handed over as col.
BlockArg == [kind |-> "block"]
ValuesArg(lv) == [kind |-> "values", lv |-> lv]

\* The frame set_geometry works on: self when inplace, else self.copy(),
\* which is shallow under pandas >= 3 and deep before.
SetGeometryFrame(h, self, inplace, pd30) ==
    IF inplace THEN [h |-> h, t |-> self] ELSE Copy(h, self, ~pd30)

\* set_geometry, lines 400-403: the name to use when none is given.
DefaultName(self) == IF self.geo = NoneV THEN "geometry" ELSE self.geo

\* ResolveCol passing on the KeyError of the lookup of an unknown name.
ResolveColKeyError(f, self, col, drop) ==
    IF col.kind = "values"
    THEN [err |-> "none", f |-> f, level |-> col.lv,
          gname |-> IF col.lv.ser /\ col.lv.name # NoneV
                    THEN col.lv.name ELSE DefaultName(self)]
    ELSE IF col.kind = "block"
    THEN [err |-> "NotOneDimensional", f |-> f]
    ELSE IF ~HasCol(f, col.name)
    THEN [err |-> "KeyError", f |-> f]
    ELSE IF f.cols[col.name].k = "shared"
    THEN [err |-> "SharedName", f |-> f]
    ELSE [err |-> "none",
          f |-> IF drop THEN [f EXCEPT !.cols[col.name] = AbsentCol] ELSE f,
          level |-> ColSeries(f, col.name),
          gname |-> IF drop THEN DefaultName(self) ELSE col.name]

\* set_geometry, lines 400-456: the active name to use and the level (the
\* values) to install; a two-dimensional argument (a table) is refused, a
\* column name is looked up in the frame (an unknown one and one shared by
\* several columns are refused) and, with drop, deleted from it.
ResolveCol(f, self, col, drop) ==
    IF col.kind = "values"
    THEN [err |-> "none", f |-> f, level |-> col.lv,
          gname |-> IF col.lv.ser /\ col.lv.name # NoneV
                    THEN col.lv.name ELSE DefaultName(self)]
    ELSE IF col.kind = "block"
    THEN [err |-> "NotOneDimensional", f |-> f]
    ELSE IF ~HasCol(f, col.name)
    THEN [err |-> "UnknownColumn", f |-> f]
    ELSE IF f.cols[col.name].k = "shared"
    THEN [err |-> "SharedName", f |-> f]
    ELSE [err |-> "none",
          f |-> IF drop THEN [f EXCEPT !.cols[col.name] = AbsentCol] ELSE f,
          level |-> ColSeries(f, col.name),
          gname |-> IF drop THEN DefaultName(self) ELSE col.name]

\* set_geometry, lines 458-459: the crs argument, else the level's own.
ResolveCrs(h, level, crs) ==
    IF crs = NoneV
    THEN IF level.k = "geom" THEN LevelCrs(h, level) ELSE NoneV
    ELSE crs

\* TagLevel leaving the CRS of the level as _ensure_geometry returned it.
TagLevelKeep(h, lv, crs) == [h |-> h, data |-> lv]

\* set_geometry, lines 464-467: level.array.crs = crs, on the very array
\* _ensure_geometry returned.
TagLevel(h, lv, crs) ==
    IF lv.arr = 0
    THEN [h |-> h, data |-> [lv EXCEPT !.crs = crs]]
    ELSE [h |-> HSet(h, lv.arr, crs), data |-> lv]

\* The outcome of a call that returned: the frame it produced.
Returned(s) == [err |-> "none", h |-> s.h, frame |-> s.t]

\* set_geometry, lines 468-471: the name is registered, then the tagged
\* level tg.data is assigned under it.
SetGeometryAssign(r, tg, pd30) ==
    Returned(SetItem(tg.h, [r.f EXCEPT !.geo = r.gname], r.gname, tg.data, pd30))

\* SetGeometryTag swallowing the TypeError of the coercion, as __init__
\* does: the frame is returned as it is.
SetGeometryTagSwallow(h, r, e, crs, pd30) ==
    IF e.err # "none"
    THEN [err |-> "none", h |-> h, frame |-> r.f]
    ELSE SetGeometryAssign(r, TagLevel(e.h, e.data, crs), pd30)

\* set_geometry, lines 462-467: e is what _ensure_geometry made of the level.
SetGeometryTag(h, r, e, crs, pd30) ==
    IF e.err # "none"
    THEN [err |-> e.err, h |-> h, frame |-> r.f]
    ELSE SetGeometryAssign(r, TagLevel(e.h, e.data, crs), pd30)

\* set_geometry, lines 458-462, with the crs to use resolved.
SetGeometryEnsure(h, r, crs, pd30) ==
    SetGeometryTag(h, r, EnsureGeometry(h, r.level, crs), crs, pd30)

\* set_geometry from line 400 on, on the frame cp.t; r is the resolved col.
SetGeometryLevel(cp, r, crs, pd30) ==
    IF r.err # "none"
    THEN [err |-> r.err, h |-> cp.h, frame |-> cp.t]
    ELSE SetGeometryEnsure(cp.h, r, ResolveCrs(cp.h, r.level, crs), pd30)

\* set_geometry from line 400 on, on the frame cp.t.
SetGeometryOn(cp, self, col, drop, crs, pd30) ==
    SetGeometryLevel(cp, ResolveCol(cp.t, self, col, drop), crs, pd30)

\* GeoDataFrame.set_geometry.  `frame` is the table the call worked on: the
\* result when err is "none", and self as the call left it when inplace.
SetGeometry(h, self, col, drop, inplace, crs, pd30) ==
    SetGeometryOn(SetGeometryFrame(h, self, inplace, pd30), self, col, drop, crs, pd30)

\* GeoDataFrame._set_geometry, the setter of the geometry property: a value
\* that is not list-like is refused, then the default name is persisted and
\* set_geometry(col, inplace=True) is called.
SetGeometryProp(h, t, lv, pd30) ==
    IF lv.xy = <<"scalar">>
    THEN [err |-> "NotListLike", h |-> h, frame |-> t]
    ELSE SetGeometry(h, PersistOldDefault(t).t, ValuesArg(lv), FALSE, TRUE, NoneV, pd30)

\* -------------------------------------------------------- rename_geometry

\* RenameOn leaving the column under its old name as well.
RenameOnKeepOld(cp, old, col, inplace, pd30) ==
    SetGeometry(cp.h, [cp.t EXCEPT !.cols[col] = cp.t.cols[old]],
                NameArg(col), FALSE, inplace, NoneV, pd30)

\* rename_geometry, lines 525-529: the column old of the frame cp.t is
\* renamed to col, then set_geometry(col) is called on the renamed frame.
RenameOn(cp, old, col, inplace, pd30) ==
    SetGeometry(cp.h,
                [cp.t EXCEPT !.cols[col] = cp.t.cols[old], !.cols[old] = AbsentCol],
                NameArg(col), FALSE, inplace, NoneV, pd30)

\* GeoDataFrame.rename_geometry; pandas' rename works on self when inplace
\* and else on a copy (shallow under pandas >= 3).
RenameGeometry(h, self, col, inplace, pd30) ==
    IF GetGeometry(self).err # "none"
    THEN [err |-> GetGeometry(self).err, h |-> h, frame |-> self]
    ELSE IF HasCol(self, col)
    THEN [err |-> "ColumnExists", h |-> h, frame |-> self]
    ELSE RenameOn(IF inplace THEN [h |-> h, t |-> self] ELSE Copy(h, self, ~pd30),
                  self.geo, col, inplace, pd30)

\* ------------------------------------------------------------------- CRS

\* GeoDataFrame.crs (setter)
CrsSet(h, t, value) ==
    IF t.geo = NoneV
    THEN [err |-> "NoGeometryForCRS", h |-> h, warn |-> "none"]
    ELSE IF GetGeometry(t).err # "none"
    THEN [err |-> GetGeometry(t).err, h |-> h, warn |-> "none"]
    ELSE IF t.cols[t.geo].k # "geom"
    THEN [err |-> "NoGeometryForCRS", h |-> h, warn |-> "none"]
    ELSE [err |-> "none", h |-> HSet(h, t.cols[t.geo].arr, value),
          warn |-> IF h[t.cols[t.geo].arr].crs # NoneV THEN "DeprecationWarning" ELSE "none"]

\* GeoSeries.set_crs(crs, allow_override, inplace=True): the check that
\* guards the retagging.
SeriesSetCrsErr(cur, crs, allow_override) ==
    IF ~allow_override /\ cur # NoneV /\ cur # crs THEN "AlreadyHasCRS" ELSE "none"

\* PassAllowOverride dropping the caller's allow_override.
PassNoOverride(allow_override) == FALSE

\* What GeoDataFrame.set_crs hands to GeoSeries.set_crs as allow_override.
PassAllowOverride(allow_override) == allow_override

\* The frame set_crs and to_crs work on: self when inplace, else self.copy().
CrsFrame(h, self, inplace) ==
    IF inplace THEN [h |-> h, t |-> self] ELSE Copy(h, self, TRUE)

\* set_crs, lines 1737-1740, on the frame cp.t: df.geometry is retagged by
\* GeoSeries.set_crs and assigned back.
SetCrsOn(cp, crs, allow_override, pd30) ==
    IF GetGeometry(cp.t).err # "none" \/ cp.t.cols[cp.t.geo].k # "geom"
    THEN [err |-> "AttributeError", h |-> cp.h, frame |-> cp.t]
    ELSE IF SeriesSetCrsErr(cp.h[cp.t.cols[cp.t.geo].arr].crs, crs,
                            PassAllowOverride(allow_override)) # "none"
    THEN [err |-> "AlreadyHasCRS", h |-> cp.h, frame |-> cp.t]
    ELSE SetGeometryProp(HSet(cp.h, cp.t.cols[cp.t.geo].arr, crs), cp.t,
                         ColSeries(cp.t, cp.t.geo), pd30)

\* GeoDataFrame.set_crs
SetCrs(h, self, crs, inplace, allow_override, pd30) ==
    SetCrsOn(CrsFrame(h, self, inplace), crs, allow_override, pd30)

\* The values of an array after reprojection to crs: the transform from
\* the CRS the array is tagged with is applied to them.
Reprojected(cell, crs) == Append(cell.xy, <<cell.crs, crs>>)

\* GeoSeries.to_crs: naive geometries and a missing target are refused; the
\* same CRS returns the same array, another one a new array tagged with it.
SeriesToCrs(h, t, crs) ==
    IF h[t.cols[t.geo].arr].crs = NoneV THEN [err |-> "NaiveGeometry"]
    ELSE IF crs = NoneV THEN [err |-> "NoTargetCRS"]
    ELSE IF h[t.cols[t.geo].arr].crs = crs
    THEN [err |-> "none", lv |-> ColSeries(t, t.geo)]
    ELSE [err |-> "none",
          lv |-> [Level(TRUE, "geom", 0, crs, t.geo)
                  EXCEPT !.xy = Reprojected(h[t.cols[t.geo].arr], crs)]]

\* ToCrsAssign tagging the active column with the CRS of what GeoSeries.to_crs
\* returned, instead of assigning that back.
ToCrsTagOnly(cp, r, pd30) ==
    IF r.err # "none"
    THEN [err |-> r.err, h |-> cp.h, frame |-> cp.t]
    ELSE [err |-> "none", h |-> HSet(cp.h, cp.t.cols[cp.t.geo].arr, LevelCrs(cp.h, r.lv)),
          frame |-> cp.t]

\* to_crs, line 1845: r is what GeoSeries.to_crs returned, assigned back.
ToCrsAssign(cp, r, pd30) ==
    IF r.err # "none"
    THEN [err |-> r.err, h |-> cp.h, frame |-> cp.t]
    ELSE SetGeometryProp(cp.h, cp.t, r.lv, pd30)

\* to_crs, lines 1844-1845, on the frame cp.t.
ToCrsOn(cp, crs, pd30) ==
    IF GetGeometry(cp.t).err # "none" \/ cp.t.cols[cp.t.geo].k # "geom"
    THEN [err |-> "AttributeError", h |-> cp.h, frame |-> cp.t]
    ELSE ToCrsAssign(cp, SeriesToCrs(cp.h, cp.t, crs), pd30)

\* GeoDataFrame.to_crs
ToCrs(h, self, crs, inplace, pd30) == ToCrsOn(CrsFrame(h, self, inplace), crs, pd30)

\* ----------------------------------------------------------- construction

NoData == [kind |-> "none", dup |-> FALSE]
DictData(cols, dup) == [kind |-> "dict", cols |-> cols, dup |-> dup]
TableData(t) == [kind |-> "table", t |-> t, dup |-> FALSE]

\* Column n of a mapping stored in the frame c.t: a geometry column in a new
\* array, cell j.
BuildCell(spec, c, n, j) ==
    IF spec[n].k = "geom"
    THEN [h |-> HPut(c.h, j, Cell(spec[n].crs, <<n>>)),
          t |-> [c.t EXCEPT !.cols[n] = [k |-> "geom", arr |-> j]]]
    ELSE [h |-> c.h, t |-> [c.t EXCEPT !.cols[n] = [k |-> spec[n].k, arr |-> 0]]]

\* The columns of a mapping from position i on.
RECURSIVE BuildCols(_, _, _)
BuildCols(spec, c, i) ==
    IF i > Len(NameSeq) THEN c
    ELSE BuildCols(spec, BuildCell(spec, c, NameSeq[i], Alloc(c.h)), i + 1)

\* The frame of a GeoDataFrame() made of no data.
EmptyFrame == [NoTable EXCEPT !.cls = "GeoDataFrame"]

\* super().__init__(data): a plain DataFrame is copied (copy=True, lines
\* 158-163), a GeoDataFrame is taken as a shallow copy sharing its arrays.
InitFrame(h, data) ==
    IF data.kind = "none" THEN [h |-> h, t |-> EmptyFrame]
    ELSE IF data.kind = "dict"
    THEN BuildCols(data.cols, [h |-> h, t |-> EmptyFrame], 1)
    ELSE AsGdf(PandasCopy(h, data.t, data.t.cls # "GeoDataFrame"), NoneV)

\* __init__, lines 180-184: a GeoDataFrame passed as data hands over its
\* active name, and a supplied crs must equal its crs.
InitFromGdf(h, f, data, geometry, crs) ==
    IF geometry.kind = "none" /\ data.kind = "table" /\ data.t.cls = "GeoDataFrame"
    THEN IF crs # NoneV /\ CrsGet(h, data.t).err # "none"
         THEN [err |-> "AttributeError", f |-> f]
         ELSE IF crs # NoneV /\ CrsGet(h, data.t).crs # crs
         THEN [err |-> "CRSMismatch", f |-> f]
         ELSE [err |-> "none", f |-> [f EXCEPT !.geo = data.t.geo]]
    ELSE [err |-> "none", f |-> f]

\* The CRS checks of __init__ (lines 201-207 and 227-233): data that carries
\* a CRS against a supplied crs.
CrsConflict(carried, crs) == carried # NoneV /\ crs # NoneV /\ carried # crs

\* The outcome of the inference when no geometry column came out of it.
NotFound(err, h, f, coerced) ==
    [err |-> err, h |-> h, f |-> f, found |-> FALSE, coerced |-> coerced]

\* The outcome of the inference when the coerced column was stored.
Found(s) == [err |-> "none", h |-> s.h, f |-> s.t, found |-> TRUE, coerced |-> TRUE]

\* __init__, lines 216-224: e is what _ensure_geometry made of the column;
\* its TypeError is swallowed, else the column is assigned back.
InitCoerce(h, f, e, pd30) ==
    IF e.err # "none"
    THEN NotFound("none", h, f, TRUE)
    ELSE Found(SetItem(e.h, f, "geometry", e.data, pd30))

\* The "geometry" column of the frame as _ensure_geometry is handed it.
InitLevel(f) ==
    [Level(FALSE, f.cols["geometry"].k, f.cols["geometry"].arr, NoneV, NoneV)
     EXCEPT !.xy = <<"geometry">>]

\* InitInfer with the duplicate check moved behind the coercion.
DupCheckAfterCoercion(h, f, data, crs, pd30) ==
    IF f.cols["geometry"].k = "geom" /\ CrsConflict(h[f.cols["geometry"].arr].crs, crs)
    THEN NotFound("CRSMismatch", h, f, FALSE)
    ELSE IF data.dup
    THEN NotFound("DupGeometry", h, f, f.cols["geometry"].k \in {"geom", "obj"})
    ELSE IF f.cols["geometry"].k \notin {"geom", "obj"}
    THEN NotFound("none", h, f, FALSE)
    ELSE InitCoerce(h, f, EnsureGeometry(h, InitLevel(f), crs), pd30)

\* __init__, lines 186-224, entered with geometry=None and a column named
\* "geometry": duplicates are refused, a carried CRS is checked against
\* crs, and a column of geometry or object dtype is coerced; a TypeError of
\* the coercion is swallowed (found = FALSE: no geometry to set).
InitInfer(h, f, data, crs, pd30) ==
    IF data.dup
    THEN NotFound("DupGeometry", h, f, FALSE)
    ELSE IF f.cols["geometry"].k = "geom" /\ CrsConflict(h[f.cols["geometry"].arr].crs, crs)
    THEN NotFound("CRSMismatch", h, f, FALSE)
    ELSE IF f.cols["geometry"].k \notin {"geom", "obj"}
    THEN NotFound("none", h, f, FALSE)
    ELSE InitCoerce(h, f, EnsureGeometry(h, InitLevel(f), crs), pd30)

\* __init__, lines 226-243: the geometry argument (given, or the inferred
\* "geometry") goes to set_geometry(inplace=True, crs=crs); a Series is
\* renamed to "geometry" first.
InitSetGeometry(h, f, geometry, crs, pd30) ==
    IF geometry.kind = "values" /\ geometry.lv.k = "geom"
       /\ CrsConflict(LevelCrs(h, geometry.lv), crs)
    THEN [err |-> "CRSMismatch", h |-> h, frame |-> f]
    ELSE SetGeometry(h, f,
                     IF geometry.kind = "values" /\ geometry.lv.ser
                     THEN ValuesArg([geometry.lv EXCEPT !.name = "geometry"])
                     ELSE geometry,
                     FALSE, TRUE, crs, pd30)

\* The outcome of __init__: sg is what its set_geometry call returned.
Built(sg, coerced) ==
    [err |-> sg.err, h |-> sg.h, t |-> sg.frame, coerced |-> coerced]

\* __init__, lines 226-249: i is the outcome of the inference.
InitGeometry(i, geometry, crs, pd30) ==
    IF i.err # "none"
    THEN [err |-> i.err, h |-> i.h, t |-> i.f, coerced |-> i.coerced]
    ELSE IF i.found
    THEN Built(InitSetGeometry(i.h, i.f, NameArg("geometry"), crs, pd30), i.coerced)
    ELSE IF geometry.kind # "none"
    THEN Built(InitSetGeometry(i.h, i.f, geometry, crs, pd30), i.coerced)
    ELSE IF crs # NoneV
    THEN [err |-> "NoGeometryForCRS", h |-> i.h, t |-> i.f, coerced |-> i.coerced]
    ELSE [err |-> "none", h |-> i.h, t |-> i.f, coerced |-> i.coerced]

\* __init__, lines 186-249: a is the outcome of lines 180-184.
InitColumns(h, a, data, geometry, crs, pd30) ==
    IF a.err # "none"
    THEN [err |-> a.err, h |-> h, t |-> a.f, coerced |-> FALSE]
    ELSE InitGeometry(IF geometry.kind = "none" /\ HasCol(a.f, "geometry")
                      THEN InitInfer(h, a.f, data, crs, pd30)
                      ELSE NotFound("none", h, a.f, FALSE),
                      geometry, crs, pd30)

\* __init__ from line 180 on: b is the frame super().__init__ built.
InitOn(b, data, geometry, crs, pd30) ==
    InitColumns(b.h, InitFromGdf(b.h, b.t, data, geometry, crs), data, geometry, crs, pd30)

\* GeoDataFrame.__init__(data, geometry=geometry, crs=crs).  `t` is the new
\* table when err is "none"; `coerced` tells whether the coercion of the
\* "geometry" column was attempted.
Construct(h, data, geometry, crs, pd30) ==
    InitOn(InitFrame(h, data), data, geometry, crs, pd30)

\* ------------------------------------------------------ derived tables

\* _geodataframe_constructor_with_fallback: c is what __init__ made of the
\* plain frame f; what __init__ raises is raised, and a GeoDataFrame is kept
\* only if a geometry column came out of it.
WithFallback(h, f, c) ==
    IF c.err # "none" THEN [err |-> c.err, h |-> h, t |-> f]
    ELSE IF GeomCols(c.t) = {} THEN [err |-> "none", h |-> h, t |-> f]
    ELSE [err |-> "none", h |-> c.h, t |-> c.t]

\* A plain DataFrame handed to a constructor; with dup it holds two columns
\* named "geometry".
FrameData(t, dup) == [kind |-> "table", t |-> t, dup |-> dup]

\* _constructor_from_mgr for the plain frame f.
FromMgr(h, f, dup, pd30) ==
    IF GeomCols(f) = {}
    THEN WithFallback(h, f, Construct(h, FrameData(f, dup), [kind |-> "none"], NoneV, pd30))
    ELSE [err |-> "none", h |-> h,
          t |-> [f EXCEPT !.cls = "GeoDataFrame",
                          !.geo = IF HasCol(f, "geometry") THEN "geometry" ELSE NoneV]]

\* GeoDataFrame._constructor_from_mgr: with no geometry block the columns go
\* through _geodataframe_constructor_with_fallback (which runs __init__ and
\* keeps a GeoDataFrame only if a geometry column came out of it); with one,
\* the frame is a GeoDataFrame whose name is "geometry" when there is such a
\* column.
ConstructorFromMgr(h, cols, dup, pd30) ==
    FromMgr(h, [cls |-> "DataFrame", geo |-> NoneV, cols |-> cols], dup, pd30)

\* Finalize leaving the result the name its constructor gave it.
FinalizeKeep(t, other) == t

\* GeoDataFrame.__finalize__, the default branch: pandas copies the names
\* listed in _metadata from the source to a GeoDataFrame result.
Finalize(t, other) ==
    IF t.cls = "GeoDataFrame" /\ other.cls = "GeoDataFrame"
    THEN [t EXCEPT !.geo = other.geo]
    ELSE t

\* GeoDataFrame.__getitem__, lines 1906-1916, on a multi-column result: the
\* class follows the dtypes, and the name is set when the column is there.
GetItemNarrow(t, self) ==
    IF GeomCols(t) # {}
    THEN IF HasCol(t, self.geo)
         THEN [t EXCEPT !.cls = "GeoDataFrame", !.geo = self.geo]
         ELSE [t EXCEPT !.cls = "GeoDataFrame"]
    ELSE [t EXCEPT !.cls = "DataFrame", !.geo = NoneV]

\* The columns keys of self, as pandas takes them.
TakeCols(self, keys) ==
    [self EXCEPT !.cols = [n \in Names |-> IF n \in keys THEN self.cols[n] ELSE AbsentCol]]

\* __getitem__, lines 1906-1916: m is the frame pandas built.
GetItemResult(m, self) ==
    IF m.err # "none" THEN m
    ELSE [err |-> "none", h |-> m.h, t |-> GetItemNarrow(Finalize(m.t, self), self)]

\* __getitem__ on the columns cp.t pandas took.
GetItemOn(cp, self, dup, pd30) ==
    GetItemResult(ConstructorFromMgr(cp.h, cp.t.cols, dup, pd30), self)

\* T[keys] for a list of column names, which with dup names "geometry"
\* twice: pandas takes the columns (copies before pandas 3, shares the
\* arrays from 3 on), builds the result with _constructor_from_mgr and
\* finalizes it from T.
GetItemList(h, self, keys, dup, pd30) ==
    GetItemOn(PandasCopy(h, TakeCols(self, keys), ~pd30), self, dup, pd30)

\* The generic path on the columns cp.t pandas took: m is the frame
\* _constructor_from_mgr built, finalized from self.
Reconstructed(m, self) ==
    IF m.err # "none" THEN m
    ELSE [err |-> "none", h |-> m.h, t |-> Finalize(m.t, self)]

\* T.loc[:, keys] (or reindex, take, drop): pandas takes the columns and
\* returns _constructor_from_mgr(...).__finalize__(T).
TakeColumns(h, self, keys, dup, pd30) ==
    Reconstructed(ConstructorFromMgr(PandasCopy(h, TakeCols(self, keys), ~pd30).h,
                                     PandasCopy(h, TakeCols(self, keys), ~pd30).t.cols,
                                     dup, pd30),
                  self)

\* ------------------------------------------------------ sliced values

\* A one-dimensional value pandas hands to the sliced constructor: its dtype
\* and the Index object that is its index, the table's row index ("index")
\* or the table's column index ("columns").  The two are different objects
\* in every table of the model.
Sliced(dtype, index) == [dtype |-> dtype, index |-> index]

\* The dtype of a column as a Series has it.
SeriesDtype(k) == IF k = "geom" THEN "geometry" ELSE IF k = "obj" THEN "object" ELSE "int64"

\* Column n of a table as pandas takes it: a slice over the table's rows.
ColumnSlice(t, n) == Sliced(SeriesDtype(t.cols[n].k), "index")

\* The columns a table has.
Columns(t) == {n \in Names : HasCol(t, n)}

\* A row of a table as pandas takes it: a slice over the table's columns,
\* of the common dtype of the columns (object when they differ).
RowSlice(t) ==
    Sliced(IF \E k \in {"geom", "obj", "plain"} : \A n \in Columns(t) : t.cols[n].k = k
           THEN SeriesDtype(t.cols[CHOOSE n \in Columns(t) : TRUE].k)
           ELSE "object",
           "columns")

\* is_row_proxy: mgr.index.is_(self.columns)
IsRowProxy(srs) == srs.index = "columns"

\* ConstructorSlicedFromMgr without the row-proxy test.
SlicedByDtypeOnly(srs) ==
    [cls |-> IF srs.dtype = "geometry" THEN "GeoSeries" ELSE "Series",
     dtype |-> srs.dtype, index |-> srs.index]

\* GeoDataFrame._constructor_sliced_from_mgr (and _constructor_sliced): a
\* GeoSeries for geometry dtype unless the value is a row proxy.
ConstructorSlicedFromMgr(srs) ==
    [cls |-> IF srs.dtype = "geometry" /\ ~IsRowProxy(srs) THEN "GeoSeries" ELSE "Series",
     dtype |-> srs.dtype, index |-> srs.index]

\* __getitem__, lines 1906-1908, on a Series result: a Series of geometry
\* dtype is made a GeoSeries.
GetItemSeries(result) ==
    IF result.dtype = "geometry" THEN [result EXCEPT !.cls = "GeoSeries"] ELSE result

\* T[key] for one column name.
GetItemCol(self, key) == GetItemSeries(ConstructorSlicedFromMgr(ColumnSlice(self, key)))

\* ---------------------------------------------------- concat and merge

\* The number of columns named n in pandas.concat(objs, axis): along axis 1
\* the columns of the inputs are put side by side, along axis 0 each name
\* is one column.
ConcatCount(objs, axis, n) ==
    IF axis = 1
    THEN Cardinality({i \in DOMAIN objs : HasCol(objs[i], n)})
    ELSE IF \E i \in DOMAIN objs : HasCol(objs[i], n) THEN 1 ELSE 0

\* The kinds of the columns named n among the inputs.
KindsNamed(objs, n) == {objs[i].cols[n].k : i \in {j \in DOMAIN objs : HasCol(objs[j], n)}}

\* The kind of a column stacked from columns of the kinds ks: geometry
\* arrays stack to a geometry array, geometries of mixed dtypes to an object
\* column of geometries, anything else with other values to a column that
\* cannot be coerced.
StackedKind(ks) ==
    IF ks = {} THEN "absent"
    ELSE IF ks = {"geom"} THEN "geom"
    ELSE IF ks \subseteq {"geom", "obj"} THEN "obj"
    ELSE "plain"

\* Whether the block manager pandas.concat built holds a geometry block.
ConcatHasGeometry(objs, axis) ==
    IF axis = 1
    THEN \E i \in DOMAIN objs : GeomCols(objs[i]) # {}
    ELSE \E n \in Names : StackedKind(KindsNamed(objs, n)) = "geom"

\* The frame pandas.concat built when it holds no geometry block, one
\* column for each name.
ConcatPlainFrame(objs, axis) ==
    [cls |-> "DataFrame", geo |-> NoneV,
     cols |-> [n \in Names |->
                 [k |-> IF StackedKind(KindsNamed(objs, n)) = "geom" THEN "obj"
                        ELSE StackedKind(KindsNamed(objs, n)),
                  arr |-> 0]]]

\* A table as the propagation of metadata sees it: its class and its
\* active name.
Meta(err, cls, geo) == [err |-> err, cls |-> cls, geo |-> geo]

\* The metadata of a frame a constructor returned.
MetaOf(m) == Meta(m.err, IF m.err = "none" THEN m.t.cls ELSE "none",
                  IF m.err = "none" THEN m.t.geo ELSE NoneV)

\* _constructor_from_mgr on what pandas.concat built: the fallback
\* constructor when there is no geometry block, else a GeoDataFrame whose
\* name is "geometry" when exactly one column has that name.
ConcatFromMgr(h, objs, axis, pd30) ==
    IF ~ConcatHasGeometry(objs, axis)
    THEN MetaOf(FromMgr(h, ConcatPlainFrame(objs, axis),
                        ConcatCount(objs, axis, "geometry") > 1, pd30))
    ELSE Meta("none", "GeoDataFrame",
              IF ConcatCount(objs, axis, "geometry") = 1 THEN "geometry" ELSE NoneV)

\* FinalizeConcat taking the name of the last input.
FinalizeConcatLast(out, objs, axis) ==
    IF out.err # "none" \/ out.cls # "GeoDataFrame" THEN out
    ELSE IF ConcatCount(objs, axis, objs[Len(objs)].geo) > 1
    THEN Meta("AmbiguousGeometry", "none", NoneV)
    ELSE Meta("none", out.cls, objs[Len(objs)].geo)

\* GeoDataFrame.__finalize__, method == "concat" (lines 2104-2129), on a
\* GeoDataFrame result: the name of the first input, and an error when more
\* than one column of the result has that name.
FinalizeConcat(out, objs, axis) ==
    IF out.err # "none" \/ out.cls # "GeoDataFrame" THEN out
    ELSE IF ConcatCount(objs, axis, objs[1].geo) > 1
    THEN Meta("AmbiguousGeometry", "none", NoneV)
    ELSE Meta("none", out.cls, objs[1].geo)

\* pandas.concat(objs, axis=axis), objs[1] a GeoDataFrame.
Concat(h, objs, axis, pd30) ==
    FinalizeConcat(ConcatFromMgr(h, objs, axis, pd30), objs, axis)

\* The columns of left.merge(right, left_index=True, right_index=True)
\* under their own names: a name both inputs have is given the suffixes
\* _x and _y, so no column of the result has it.
MergeCols(left, right) ==
    [n \in Names |->
        IF HasCol(left, n) /\ HasCol(right, n) THEN [k |-> "absent", arr |-> 0]
        ELSE IF HasCol(left, n) THEN [k |-> left.cols[n].k, arr |-> 0]
        ELSE IF HasCol(right, n) THEN [k |-> right.cols[n].k, arr |-> 0]
        ELSE [k |-> "absent", arr |-> 0]]

\* Whether the merged columns, the suffixed ones included, hold a geometry
\* block.
MergeHasGeometry(left, right) == GeomCols(left) # {} \/ GeomCols(right) # {}

\* The merged columns as the constructor of the left input returns them:
\* pandas builds the result with left._constructor_from_mgr, which for a
\* plain DataFrame is the DataFrame constructor.
MergeFromMgr(h, left, right, pd30) ==
    IF left.cls # "GeoDataFrame" THEN Meta("none", "DataFrame", NoneV)
    ELSE IF ~MergeHasGeometry(left, right)
    THEN MetaOf(ConstructorFromMgr(h, MergeCols(left, right), FALSE, pd30))
    ELSE Meta("none", "GeoDataFrame",
              IF HasCol([cols |-> MergeCols(left, right)], "geometry")
              THEN "geometry" ELSE NoneV)

\* FinalizeMerge taking the name of the right input.
FinalizeMergeRight(out, left, right) ==
    IF out.err # "none" \/ out.cls # "GeoDataFrame" THEN out
    ELSE Meta("none", out.cls, right.geo)

\* GeoDataFrame.__finalize__, method == "merge" (lines 2093-2103), on a
\* GeoDataFrame result: every name of _metadata is read from the left input.
FinalizeMerge(out, left, right) ==
    IF out.err # "none" \/ out.cls # "GeoDataFrame" THEN out
    ELSE Meta("none", out.cls, left.geo)

\* left.merge(right, left_index=True, right_index=True).
Merge(h, left, right, pd30) ==
    FinalizeMerge(MergeFromMgr(h, left, right, pd30), left, right)

\* What a column of a mapping holds: its kind and the CRS of its values.
AbsentSpec == [k |-> "absent", crs |-> NoneV]
PlainSpec == [k |-> "plain", crs |-> NoneV]
ObjSpec == [k |-> "obj", crs |-> NoneV]
GeomSpec(c) == [k |-> "geom", crs |-> c]
\* A name that more than one column of the data has.
SharedSpec == [k |-> "shared", crs |-> NoneV]

\* ---------------------------------------------------------------- apply

\* _dataframe_set_geometry (pandas.DataFrame.set_geometry), gf what
\* GeoDataFrame(df) came to.
DataFrameSetGeometryOn(gf, df, col, pd30) ==
    IF gf.err # "none" THEN [err |-> gf.err, h |-> gf.h, frame |-> df]
    ELSE SetGeometry(gf.h, gf.t, col, FALSE, FALSE, NoneV, pd30)

\* _dataframe_set_geometry: df.set_geometry(col) on a plain DataFrame.
DataFrameSetGeometry(h, df, col, pd30) ==
    DataFrameSetGeometryOn(Construct(h, TableData(df), [kind |-> "none"], NoneV, pd30),
                           df, col, pd30)

\* What the applied function returns: per column ("keep": the columns as
\* they are, "untag": the active column as geometries without a CRS,
\* "flatten": rows handed over as object Series (axis=1), so geometry
\* columns come back with object dtype, "plain": values that are no
\* geometries under the active name, "drop": no column of that name), or
\* one value per column ("reduce_obj": geometries, "reduce_plain": numbers).
ApplyHows == {"keep", "untag", "flatten", "plain", "drop", "reduce_obj", "reduce_plain"}

\* Column n of the frame pandas' apply builds from what the function
\* returned.
ApplyCol(h, self, n, how) ==
    IF ~HasCol(self, n) THEN AbsentSpec
    ELSE IF n = self.geo /\ how = "drop" THEN AbsentSpec
    ELSE IF n = self.geo /\ how = "plain" THEN PlainSpec
    ELSE IF self.cols[n].k = "geom"
    THEN IF how = "flatten" THEN ObjSpec
         ELSE GeomSpec(IF n = self.geo /\ how = "untag"
                       THEN NoneV ELSE h[self.cols[n].arr].crs)
    ELSE [k |-> self.cols[n].k, crs |-> NoneV]

\* The outcome of apply: the frame or the Series returned.
Applied(err, h, frame, series) == [err |-> err, h |-> h, frame |-> frame, series |-> series]

\* The outcome of apply when it ends with the call that returned r.
AppliedFrame(r) == Applied(r.err, r.h, r.frame, "none")

\* super().apply(...) returning a frame: the columns go through
\* self._constructor (the fallback constructor), and the result is
\* finalized from self.
ApplyFrame(c, self, pd30) ==
    Applied(c.err, c.h, IF c.err = "none" THEN Finalize(c.t, self) ELSE NoTable, "none")

\* apply, lines 1999-2003 with the CRS of the result left as it is.
ApplyCrsKeep(h, self, result, sg, pd30) ==
    IF sg.err = "TypeError" THEN Applied("none", h, result, "none")
    ELSE Applied(sg.err, sg.h, sg.frame, "none")

\* apply, lines 1996-2003: sg is what result.set_geometry returned; its
\* TypeError is swallowed, and a result without a CRS is given self.crs.
ApplyCrs(h, self, result, sg, pd30) ==
    IF sg.err = "TypeError" THEN Applied("none", h, result, "none")
    ELSE IF sg.err # "none" THEN Applied(sg.err, sg.h, sg.frame, "none")
    ELSE IF CrsGet(h, self).err # "none" THEN Applied("AttributeError", sg.h, sg.frame, "none")
    ELSE IF CrsGet(h, self).crs # NoneV /\ CrsGet(sg.h, sg.frame).crs = NoneV
    THEN AppliedFrame(SetCrs(sg.h, sg.frame, CrsGet(h, self).crs, TRUE, FALSE, pd30))
    ELSE Applied("none", sg.h, sg.frame, "none")

\* apply, lines 1992-2003, on the frame pandas returned.
ApplyReconstruct(h, self, r, pd30) ==
    IF r.err # "none" \/ ~HasCol(r.frame, self.geo) THEN r
    ELSE ApplyCrs(h, self, r.frame,
                  IF r.frame.cls = "GeoDataFrame"
                  THEN SetGeometry(r.h, r.frame, NameArg(self.geo), FALSE, FALSE, NoneV, pd30)
                  ELSE DataFrameSetGeometry(r.h, r.frame, NameArg(self.geo), pd30),
                  pd30)

\* apply, lines 2004-2014, on a Series result of object dtype: it is made a
\* GeoSeries when its values are geometries, and left alone otherwise.
ApplySeries(h, how) ==
    Applied("none", h, NoTable,
            IF EnsureGeometry(h, Level(TRUE, IF how = "reduce_obj" THEN "obj" ELSE "plain",
                                       0, NoneV, NoneV), NoneV).err = "none"
            THEN "GeoSeries" ELSE "Series")

\* GeoDataFrame.apply(func), how telling what func returns.
Apply(h, self, how, pd30) ==
    IF how \in {"reduce_obj", "reduce_plain"} THEN ApplySeries(h, how)
    ELSE ApplyReconstruct(h, self,
             ApplyFrame(FromMgr(BuildCols([n \in Names |-> ApplyCol(h, self, n, how)],
                                          [h |-> h, t |-> [NoTable EXCEPT !.cls = "DataFrame"]],
                                          1).h,
                                BuildCols([n \in Names |-> ApplyCol(h, self, n, how)],
                                          [h |-> h, t |-> [NoTable EXCEPT !.cls = "DataFrame"]],
                                          1).t,
                                FALSE, pd30),
                        self, pd30),
             pd30)

\* ------------------------------------------------------------ dissolve

\* A geometry value: null, or the sequence of its parts (one part: a
\* single geometry, several: a multi-part one).
Null == [null |-> TRUE, parts |-> <<>>]
Geom(parts) == [null |-> FALSE, parts |-> parts]

\* The parts of the geometries gs, nulls skipped.
PartsOfAll(gs) == UNION {{g.parts[j] : j \in DOMAIN g.parts} : g \in {x \in gs : ~x.null}}

Least(S) == CHOOSE x \in S : \A y \in S : x <= y

\* The elements of a set of numbers in ascending order.
RECURSIVE Ascending(_)
Ascending(S) == IF S = {} THEN <<>> ELSE <<Least(S)>> \o Ascending(S \ {Least(S)})

\* GeoSeries.union_all: one geometry made of every part of the geometries;
\* the union of parts that are points is the multi-point of the distinct
\* points.
UnionAll(gs) == Geom(Ascending(PartsOfAll(gs)))

\* The label of the row at position i in the index of the table.
Label(i) == 10 * i

NaN == "NaN"

\* The group keys in the order groupby(sort=True) yields them; "0" is the
\* key of the single group of by=None (np.zeros, line 2258).
KeySeq == <<"0", "a", "b", NaN>>

\* The group key of a row.
ByKey(row, by) == IF by = NoneV THEN "0" ELSE row.a

\* The keys of the groups: with dropna the rows whose key is missing are
\* left out.
GroupKeys(rs, by, dropna) ==
    {ByKey(rs[i], by) : i \in DOMAIN rs} \ (IF dropna THEN {NaN} ELSE {})

\* The group keys as a sequence, sorted.
GroupSeq(rs, by, dropna) ==
    SelectSeq(KeySeq, LAMBDA k : k \in GroupKeys(rs, by, dropna))

\* MergeGeometries keeping the geometry of the first row of the group.
MergeGeometriesFirst(rs, by, key) ==
    rs[Least({j \in DOMAIN rs : ByKey(rs[j], by) = key})].g

\* dissolve, lines 2275-2281: merge_geometries on the block of one group.
MergeGeometries(rs, by, key) ==
    UnionAll({rs[i].g : i \in {j \in DOMAIN rs : ByKey(rs[j], by) = key}})

\* The rows of the dissolved table, one for each key of ks: the key is the
\* index, or with as_index=False (reset_index, lines 2289-2290) a column
\* beside a new index.
DissolvedRows(rs, ks, by, as_index) ==
    [j \in 1..Len(ks) |->
        [ix |-> IF as_index THEN <<ks[j]>> ELSE <<j - 1>>,
         by |-> IF as_index THEN "index" ELSE ks[j],
         g |-> MergeGeometries(rs, by, ks[j])]]

\* What pandas' aggregation hands back for a column of geometries: a
\* geometry array rebuilt from the values, which carries no CRS (cast), or
\* an object column.
AggKind(cast) == IF cast THEN GeomSpec(NoneV) ELSE ObjSpec

\* dissolve, lines 2269-2272: the columns of aggregated_data, those of self
\* without the active one and the one grouped by; a list of functions gives
\* every column a tuple for a name.
AggSpec(self, by, aggfunc, cast) ==
    [n \in Names |->
        IF n \in {self.geo, by} \/ aggfunc = "list" \/ ~HasCol(self, n) THEN AbsentSpec
        ELSE IF self.cols[n].k \in {"geom", "obj"} THEN AggKind(cast)
        ELSE PlainSpec]

\* aggregated_data as pandas builds it, through the constructor of self.
AggregatedData(h, self, by, aggfunc, cast, pd30) ==
    FromMgr(BuildCols(AggSpec(self, by, aggfunc, cast),
                      [h |-> h, t |-> [EmptyFrame EXCEPT !.cls = "DataFrame"]], 1).h,
            BuildCols(AggSpec(self, by, aggfunc, cast),
                      [h |-> h, t |-> [EmptyFrame EXCEPT !.cls = "DataFrame"]], 1).t,
            FALSE, pd30)

\* AggregatedGeometry without the CRS of self.
AggregatedGeometryNoCrs(h, self, crs, cast, pd30) ==
    Construct(h, DictData([n \in Names |-> IF n = self.geo THEN AggKind(cast)
                                           ELSE AbsentSpec], FALSE),
              NameArg(self.geo), NoneV, pd30)

\* dissolve, line 2284: type(self)(g, geometry=self.geometry.name,
\* crs=self.crs), g the Series of the merged geometries.
AggregatedGeometry(h, self, crs, cast, pd30) ==
    Construct(h, DictData([n \in Names |-> IF n = self.geo THEN AggKind(cast)
                                           ELSE AbsentSpec], FALSE),
              NameArg(self.geo), crs, pd30)

\* The outcome of a dissolve or an explode.
Reshaped(err, h, t, rs) == [err |-> err, h |-> h, t |-> t, rows |-> rs]

\* dissolve, lines 2289-2290: reset_index puts the column grouped by back;
\* pandas builds the frame with _constructor_from_mgr and finalizes it from
\* the joined one.
ResetIndex(h, t, self, by, pd30) ==
    Finalize(FromMgr(h, IF by \in Names THEN [t EXCEPT !.cols[by] = self.cols[by]] ELSE t,
                     FALSE, pd30).t,
             t)

\* dissolve, line 2286: aggregated_geometry.join(aggregated_data), a merge
\* on the index, m what it is finalized to.
DissolveJoined(c, agg, m) ==
    [cls |-> m.cls, geo |-> m.geo,
     cols |-> [n \in Names |-> IF HasCol(c.t, n) THEN c.t.cols[n] ELSE agg.t.cols[n]]]

\* dissolve, lines 2286-2292.
DissolveJoin(c, agg, self, rs, by, as_index, dropna, pd30) ==
    IF c.err # "none" THEN Reshaped(c.err, c.h, self, <<>>)
    ELSE Reshaped("none", c.h,
                  IF as_index
                  THEN DissolveJoined(c, agg, Merge(c.h, c.t, agg.t, pd30))
                  ELSE ResetIndex(c.h, DissolveJoined(c, agg, Merge(c.h, c.t, agg.t, pd30)),
                                  self, by, pd30),
                  DissolvedRows(rs, GroupSeq(rs, by, dropna), by, as_index))

\* dissolve, lines 2270-2284, agg what aggregated_data came to.
DissolveOn(agg, self, rs, by, as_index, dropna, cast, pd30) ==
    IF agg.err # "none" THEN Reshaped(agg.err, agg.h, self, <<>>)
    ELSE IF CrsGet(agg.h, self).err # "none"
    THEN Reshaped("AttributeError", agg.h, self, <<>>)
    ELSE DissolveJoin(AggregatedGeometry(agg.h, self, CrsGet(agg.h, self).crs, cast, pd30),
                      agg, self, rs, by, as_index, dropna, pd30)

\* GeoDataFrame.dissolve(by, aggfunc, as_index, dropna=dropna), rs the rows
\* of self: self.geometry raises without an active column, and groupby
\* raises KeyError when by names no column of the data.
Dissolve(h, self, rs, by, aggfunc, as_index, dropna, cast, pd30) ==
    IF GetGeometry(self).err # "none" THEN Reshaped("AttributeError", h, self, <<>>)
    ELSE IF by # NoneV /\ (by = self.geo \/ ~HasCol(self, by))
    THEN Reshaped("KeyError", h, self, <<>>)
    ELSE DissolveOn(AggregatedData(h, self, by, aggfunc, cast, pd30),
                    self, rs, by, as_index, dropna, cast, pd30)

\* ------------------------------------------------------------- explode

\* GeoSeries.explode(index_parts=True) for the row at position i: one entry
\* for each part of its geometry, in the order of the parts, indexed by the
\* position and the ordinal of the part; a null geometry has no part.
ExplodedParts(rs, i) ==
    IF rs[i].g.null THEN <<>>
    ELSE [j \in 1..Len(rs[i].g.parts) |->
            [pos |-> i, part |-> j - 1, g |-> Geom(<<rs[i].g.parts[j]>>)]]

\* GeoSeries.explode(index_parts=True) from position i on.
RECURSIVE ExplodedGeom(_, _)
ExplodedGeom(rs, i) ==
    IF i > Len(rs) THEN <<>> ELSE ExplodedParts(rs, i) \o ExplodedGeom(rs, i + 1)

\* explode, the signature (lines 2295-2300): the values of ignore_index and
\* index_parts of a call that gives neither.
IgnoreIndexDefault == FALSE
IndexPartsDefault == FALSE

\* ExplodedIndex appending the ordinal of the part unless the index is
\* ignored.
ExplodedIndexParts(e, j, ignore_index, index_parts) ==
    IF ignore_index THEN <<j - 1>>
    ELSE <<Label(e.pos), e.part>>

\* explode, lines 2390-2400: the index of the j-th row of the result, e its
\* entry of the exploded geometries.
ExplodedIndex(e, j, ignore_index, index_parts) ==
    IF ignore_index THEN <<j - 1>>
    ELSE IF index_parts THEN <<Label(e.pos), e.part>>
    ELSE <<Label(e.pos)>>

\* ExplodedRows without the assignment of the parts: every row keeps the
\* geometry of the row it was taken from.
ExplodedRowsUnassigned(rs, ex, ignore_index, index_parts) ==
    [j \in 1..Len(ex) |->
        [ix |-> ExplodedIndex(ex[j], j, ignore_index, index_parts),
         a |-> rs[ex[j].pos].a,
         o |-> rs[ex[j].pos].o,
         g |-> rs[ex[j].pos].g]]

\* explode, lines 2384-2387: the other columns of the row each part came
\* from are taken, and the parts are assigned as the geometry column.
ExplodedRows(rs, ex, ignore_index, index_parts) ==
    [j \in 1..Len(ex) |->
        [ix |-> ExplodedIndex(ex[j], j, ignore_index, index_parts),
         a |-> rs[ex[j].pos].a,
         o |-> rs[ex[j].pos].o,
         g |-> ex[j].g]]

\* pandas DataFrame.explode on a column of scalars: every row once.
PandasExplodedRows(rs, ignore_index) ==
    [j \in 1..Len(rs) |->
        [ix |-> IF ignore_index THEN <<j - 1>> ELSE <<Label(j)>>,
         a |-> rs[j].a, o |-> rs[j].o, g |-> rs[j].g]]

\* The values of the exploded geometries: a new GeometryArray with the CRS
\* of the active column.
ExplodedValues(h, self) ==
    [Level(FALSE, "geom", 0, h[self.cols[self.geo].arr].crs, NoneV) EXCEPT !.xy = <<"parts">>]

\* explode, line 2388: sg is what set_geometry returned.
ExplodeFinalize(sg, self, rs) ==
    IF sg.err # "none" THEN Reshaped(sg.err, sg.h, self, <<>>)
    ELSE Reshaped("none", sg.h, Finalize(sg.frame, self), rs)

\* explode, line 2388: df.set_geometry(self._geometry_column_name), a the
\* frame after the assignment of the parts.
ExplodeSetGeometry(a, self, rs, pd30) ==
    ExplodeFinalize(IF a.t.cls = "GeoDataFrame"
                    THEN SetGeometry(a.h, a.t, NameArg(self.geo), FALSE, FALSE, NoneV, pd30)
                    ELSE DataFrameSetGeometry(a.h, a.t, NameArg(self.geo), pd30),
                    self, rs)

\* explode, line 2387: df[exploded_geom.name] = exploded_geom.values.
ExplodeAssign(df, self, lv, rs, pd30) ==
    IF df.err # "none" THEN Reshaped(df.err, df.h, self, <<>>)
    ELSE ExplodeSetGeometry(IF df.t.cls = "GeoDataFrame"
                            THEN SetItem(df.h, df.t, self.geo, lv, pd30)
                            ELSE PandasSetItem(df.h, df.t, self.geo, lv, pd30),
                            self, rs, pd30)

\* explode, lines 2384-2386: .take(...) on the frame cp.t, whose arrays
\* pandas has copied with the rows taken.
ExplodeTaken(cp, d, pd30) ==
    Reconstructed(ConstructorFromMgr(cp.h, cp.t.cols, FALSE, pd30), d.t)

\* explode, lines 2384-2386: d is self.drop(self._geometry_column_name,
\* axis=1).
ExplodeTake(d, pd30) ==
    IF d.err # "none" THEN d ELSE ExplodeTaken(PandasCopy(d.h, d.t, TRUE), d, pd30)

\* explode, lines 2382-2402, for a column of geometry dtype: the active
\* geometry column is the one exploded.
ExplodeGeometry(h, self, rs, ignore_index, index_parts, pd30) ==
    IF GetGeometry(self).err # "none" THEN Reshaped("AttributeError", h, self, <<>>)
    ELSE IF self.cols[self.geo].k # "geom" THEN Reshaped("TypeError", h, self, <<>>)
    ELSE ExplodeAssign(ExplodeTake(TakeColumns(h, self, Columns(self) \ {self.geo},
                                               FALSE, pd30), pd30),
                       self, ExplodedValues(h, self),
                       ExplodedRows(rs, ExplodedGeom(rs, 1), ignore_index, index_parts),
                       pd30)

\* super().explode(column, ignore_index=ignore_index), line 2380: pandas
\* explodes the column and rebuilds the table, finalized from self.
PandasExplode(r, rs, ignore_index) ==
    Reshaped(r.err, r.h, r.t, IF r.err = "none" THEN PandasExplodedRows(rs, ignore_index)
                              ELSE <<>>)

\* explode, lines 2375-2380, with the column resolved.
ExplodeColumn(h, self, rs, column, ignore_index, index_parts, pd30) ==
    IF ~HasCol(self, column) THEN Reshaped("KeyError", h, self, <<>>)
    ELSE IF self.cols[column].k # "geom"
    THEN PandasExplode(TakeColumns(h, self, Columns(self), FALSE, pd30), rs, ignore_index)
    ELSE ExplodeGeometry(h, self, rs, ignore_index, index_parts, pd30)

\* GeoDataFrame.explode(column, ignore_index, index_parts), rs the rows of
\* self.
Explode(h, self, rs, column, ignore_index, index_parts, pd30) ==
    IF column # NoneV
    THEN ExplodeColumn(h, self, rs, column, ignore_index, index_parts, pd30)
    ELSE IF GetGeometry(self).err # "none" THEN Reshaped("AttributeError", h, self, <<>>)
    ELSE ExplodeColumn(h, self, rs, self.geo, ignore_index, index_parts, pd30)

\* ------------------------------------------------------------- inputs

Mapping(g, g2, a) == [n \in Names |-> IF n = "geometry" THEN g ELSE IF n = "geom2" THEN g2 ELSE a]

\* The mappings a table is constructed from; the ones with dup hold two
\* columns named "geometry".
DataLiterals ==
    {DictData(Mapping(AbsentSpec, AbsentSpec, PlainSpec), FALSE),
     DictData(Mapping(ObjSpec, AbsentSpec, PlainSpec), FALSE),
     DictData(Mapping(GeomSpec(NoneV), AbsentSpec, PlainSpec), FALSE),
     DictData(Mapping(GeomSpec("EPSG:4326"), GeomSpec("EPSG:3857"), PlainSpec), FALSE),
     DictData(Mapping(PlainSpec, GeomSpec("EPSG:3857"), AbsentSpec), FALSE),
     DictData(Mapping(GeomSpec("EPSG:4326"), SharedSpec, PlainSpec), FALSE),
     DictData(Mapping(ObjSpec, AbsentSpec, PlainSpec), TRUE),
     DictData(Mapping(GeomSpec("EPSG:4326"), AbsentSpec, PlainSpec), TRUE)}

ListOfGeoms == Level(FALSE, "obj", 0, NoneV, NoneV)
ListOfInts == Level(FALSE, "plain", 0, NoneV, NoneV)
ExtArray == Level(FALSE, "geom", ext, NoneV, NoneV)
NewArray(c) == [Level(FALSE, "geom", 0, c, NoneV) EXCEPT !.xy = <<"new">>]

\* The geometry columns of the live tables, each as a GeoSeries named after
\* its column.
SeriesInputs ==
    UNION {{ColSeries(tables[s], n) : n \in GeomCols(tables[s])} : s \in Slots}

\* The array-likes a caller can pass: a list of geometries, a list of
\* non-geometries, the GeometryArray it holds (which has no CRS), a new
\* GeometryArray that carries one, or a geometry column of a live table.
ValueInputs ==
    {ListOfGeoms, ListOfInts, ExtArray, NewArray("EPSG:4326")} \cup SeriesInputs

GeometryArgs ==
    {NameArg(n) : n \in {"geometry", "geom2"}} \cup {ValuesArg(v) : v \in ValueInputs}
        \cup {BlockArg}

Live(s) == tables[s].cls # "none"
LiveSlots == {x \in Slots : Live(x)}

\* What a table can be constructed from: nothing, a mapping, a live table.
DataInputs == DataLiterals \cup {NoData} \cup {TableData(tables[x]) : x \in LiveSlots}
IsGdf(s) == tables[s].cls = "GeoDataFrame"

\* No name of the table is shared by several columns.  Tables that have
\* such a name are constructed, copied into a constructor, read and handed
\* to set_geometry; the other operations are modelled on tables whose names
\* are unique.
Unshared(s) == \A n \in Names : tables[s].cols[n].k # "shared"

\* The call that returned frame t2 for table t assigned to no shared name.
KeepsShared(t, t2) == \A n \in Names : t.cols[n].k = "shared" => t2.cols[n].k = "shared"

\* What an argument looks like to the caller: its kind and the CRS it carries.
ArgKind(g) == IF g.kind = "values" THEN (IF g.lv.ser THEN "series" ELSE
                  IF g.lv.k = "obj" THEN "list" ELSE IF g.lv.k = "plain" THEN "bad" ELSE "array")
              ELSE g.kind
ArgCrs(h, g) == IF g.kind = "values" /\ g.lv.k = "geom" THEN LevelCrs(h, g.lv) ELSE "n/a"
ArgArr(g) == IF g.kind = "values" THEN g.lv.arr ELSE 0

\* The slots whose table holds array i.
Holders(i) == {s \in Slots : i \in TableArrs(tables[s])}

\* ------------------------------------------------------------- state

\* What a caller can observe of a table: its class, active name, column
\* kinds, and the CRS tag of each geometry column.
View(h, t) ==
    [cls |-> t.cls, geo |-> t.geo,
     cols |-> [n \in Names |-> IF t.cols[n].k = "geom"
                               THEN <<"geom", h[t.cols[n].arr]>>
                               ELSE <<t.cols[n].k, NoneV>>]]

\* copyOf after a call: pairs are dropped when a side is replaced (repl) or
\* when the original is operated on (orig).
KeepCopies(repl, orig) ==
    [y \in Slots |-> IF y \in repl \/ copyOf[y] \in repl \/ copyOf[y] \in orig
                     THEN NoneV ELSE copyOf[y]]

\* A script goes on while calls are left and the last one returned.
Ready == calls < MaxCalls /\ last.err = "none"

Commit(h, tabs, rec, co) ==
    /\ calls' = calls + 1
    /\ h[0] = Free
    /\ heap' = Normalize(h, tabs, ext)
    /\ tables' = tabs
    /\ last' = rec
    /\ copyOf' = co
    /\ UNCHANGED <<PANDAS_GE_30, ext, rows>>

\* The heap before any call: the array the caller holds, which has no CRS.
InitHeap == [i \in 0..MaxArr |-> IF i = 1 THEN Cell(NoneV, <<"ext">>) ELSE Free]

Init ==
    /\ PANDAS_GE_30 \in BOOLEAN
    /\ ext = 1
    /\ heap = InitHeap
    /\ tables = [s \in Slots |-> NoTable]
    /\ copyOf = [s \in Slots |-> NoneV]
    /\ last = [op |-> "none", err |-> "none"]
    /\ calls = 0
    /\ rows = <<>>

\* ------------------------------------------------------------- actions

\* The CRS tag of column n of the data of a construction, as a set: empty
\* when there is no such column or it holds no geometries.
DataColTags(h, data, n) ==
    IF data.kind = "dict"
    THEN (IF data.cols[n].k \in {"geom", "obj"} THEN {data.cols[n].crs} ELSE {})
    ELSE IF data.kind = "table"
    THEN (IF data.t.cols[n].k = "geom" THEN {h[data.t.cols[n].arr].crs}
          ELSE IF data.t.cols[n].k = "obj" THEN {NoneV} ELSE {})
    ELSE {}

\* The CRS tags (None for untagged) of the incoming geometry data of a
\* construction: array-like geometry= values, the column geometry= names,
\* or, with geometry=None, the column named "geometry" and the active
\* column of a GeoDataFrame passed as data.
Incoming(h, data, geometry) ==
    IF geometry.kind = "values"
    THEN (IF geometry.lv.k = "geom" THEN {LevelCrs(h, geometry.lv)}
          ELSE IF geometry.lv.k = "obj" THEN {NoneV} ELSE {})
    ELSE IF geometry.kind = "name"
    THEN DataColTags(h, data, geometry.name)
    ELSE DataColTags(h, data, "geometry")
         \cup (IF data.kind = "table" /\ data.t.cls = "GeoDataFrame"
                  /\ CrsGet(h, data.t).err = "none"
               THEN {CrsGet(h, data.t).crs} ELSE {})

\* dst = GeoDataFrame(data, geometry=geometry, crs=crs)
DoConstruct(dst, data, geometry, crs) ==
    /\ Ready
    /\ \E r \in {Construct(heap, data, geometry, crs, PANDAS_GE_30)} :
       Commit(r.h, IF r.err = "none" THEN [tables EXCEPT ![dst] = r.t] ELSE tables,
              [op |-> "construct", err |-> r.err,
               dst |-> IF r.err = "none" THEN dst ELSE NoneV,
               data |-> IF data.kind = "table" THEN data.t.cls ELSE data.kind,
               dup |-> data.dup, arg |-> ArgKind(geometry), crs |-> crs,
               coerced |-> r.coerced,
               geomK |-> IF data.kind = "dict" THEN data.cols["geometry"].k
                         ELSE IF data.kind = "table" THEN data.t.cols["geometry"].k
                         ELSE "absent",
               incoming |-> Incoming(heap, data, geometry),
               srcI1 |-> data.kind = "table" => I1(data.t)],
              KeepCopies(IF r.err = "none" THEN {dst} ELSE {}, {}))

\* s.set_geometry(col, drop=drop, inplace=inplace, crs=crs), the result
\* bound to dst
DoSetGeometry(s, dst, col, drop, inplace, crs) ==
    /\ Ready
    /\ IsGdf(s)
    /\ inplace => dst = s
    /\ \E r \in {SetGeometry(heap, tables[s], col, drop, inplace, crs, PANDAS_GE_30)} :
       /\ KeepsShared(tables[s], r.frame)
       /\ Commit(r.h, IF inplace \/ r.err = "none"
                   THEN [tables EXCEPT ![dst] = r.frame] ELSE tables,
                 [op |-> "set_geometry", err |-> r.err, self |-> s,
                  dst |-> IF inplace \/ r.err = "none" THEN dst ELSE NoneV,
                  inplace |-> inplace, drop |-> drop, crs |-> crs,
                  arg |-> ArgKind(col), argCrs |-> ArgCrs(heap, col),
                  argArr |-> ArgArr(col),
                  argK |-> IF col.kind = "values" THEN col.lv.k
                           ELSE IF col.kind = "block" THEN "block"
                           ELSE tables[s].cols[col.name].k,
                  srcI1 |-> I1(tables[s]), had |-> CrsOrNone(heap, tables[s]),
                  colCrs |-> IF col.kind = "name" /\ HasCol(tables[s], col.name)
                                /\ tables[s].cols[col.name].k = "geom"
                             THEN heap[tables[s].cols[col.name].arr].crs ELSE "n/a"],
                 KeepCopies(IF dst # s /\ r.err = "none" THEN {dst} ELSE {}, {s}))

\* Whether rename_geometry, returning r, left a table to bind: its result,
\* or self as an inplace call that raised left it.
Changed(s, r, inplace) == (inplace /\ r.frame # tables[s]) \/ r.err = "none"

\* s.rename_geometry(col, inplace=inplace), the result bound to dst
DoRenameGeometry(s, dst, col, inplace) ==
    /\ Ready
    /\ IsGdf(s) /\ Unshared(s)
    /\ inplace => dst = s
    /\ \E r \in {RenameGeometry(heap, tables[s], col, inplace, PANDAS_GE_30)} :
       Commit(r.h, IF Changed(s, r, inplace)
                   THEN [tables EXCEPT ![dst] = r.frame] ELSE tables,
                 [op |-> "rename_geometry", err |-> r.err, self |-> s,
                  dst |-> IF r.err = "none" THEN dst ELSE NoneV,
                  inplace |-> inplace, col |-> col, srcI1 |-> I1(tables[s])],
                 KeepCopies(IF Changed(s, r, inplace) THEN {s, dst} ELSE {}, {}))

\* reading s.crs
DoCrsGet(s) ==
    /\ Ready
    /\ IsGdf(s)
    /\ \E r \in {CrsGet(heap, tables[s])} :
       Commit(heap, tables,
                 [op |-> "crs_get", err |-> r.err, self |-> s,
                  value |-> IF r.err = "none" THEN r.crs ELSE "n/a"],
                 copyOf)

\* s.crs = value
DoCrsSet(s, value) ==
    /\ Ready
    /\ IsGdf(s) /\ Unshared(s)
    /\ \E r \in {CrsSet(heap, tables[s], value)} :
       Commit(r.h, tables,
                 [op |-> "crs_set", err |-> r.err, self |-> s, dst |-> s, crs |-> value],
                 KeepCopies({}, {s}))

\* s.set_crs(crs, inplace=inplace, allow_override=allow_override), the
\* result bound to dst
DoSetCrs(s, dst, crs, inplace, allow_override) ==
    /\ Ready
    /\ IsGdf(s) /\ Unshared(s)
    /\ inplace => dst = s
    /\ \E r \in {SetCrs(heap, tables[s], crs, inplace, allow_override, PANDAS_GE_30)} :
       Commit(r.h, IF r.err = "none" THEN [tables EXCEPT ![dst] = r.frame] ELSE tables,
                 [op |-> "set_crs", err |-> r.err, self |-> s,
                  dst |-> IF r.err = "none" THEN dst ELSE NoneV,
                  inplace |-> inplace, crs |-> crs, allow_override |-> allow_override,
                  had |-> IF CrsGet(heap, tables[s]).err = "none"
                         THEN CrsGet(heap, tables[s]).crs ELSE "n/a",
                  srcI1 |-> I1(tables[s])],
                 KeepCopies(IF dst # s /\ r.err = "none" THEN {dst} ELSE {}, {s}))

\* s.to_crs(crs, inplace=inplace), the result bound to dst
DoToCrs(s, dst, crs, inplace) ==
    /\ Ready
    /\ IsGdf(s) /\ Unshared(s)
    /\ inplace => dst = s
    /\ \E r \in {ToCrs(heap, tables[s], crs, inplace, PANDAS_GE_30)} :
       Commit(r.h, IF r.err = "none" THEN [tables EXCEPT ![dst] = r.frame] ELSE tables,
                 [op |-> "to_crs", err |-> r.err, self |-> s,
                  dst |-> IF r.err = "none" THEN dst ELSE NoneV,
                  inplace |-> inplace, crs |-> crs, srcI1 |-> I1(tables[s])],
                 KeepCopies(IF dst # s /\ r.err = "none" THEN {dst} ELSE {}, {s}))

\* dst = s.copy(deep=deep)
DoCopy(s, dst, deep) ==
    /\ Ready
    /\ IsGdf(s) /\ Unshared(s)
    /\ \E r \in {Copy(heap, tables[s], deep)} :
       Commit(r.h, [tables EXCEPT ![dst] = r.t],
                 [op |-> "copy", err |-> "none", self |-> s, dst |-> dst, deep |-> deep,
                  srcI1 |-> I1(tables[s])],
                 IF deep /\ dst # s
                 THEN [KeepCopies({dst}, {}) EXCEPT ![dst] = s]
                 ELSE KeepCopies({dst}, {}))

\* s[key] = value
DoSetItem(s, key, value) ==
    /\ Ready
    /\ IsGdf(s) /\ Unshared(s)
    /\ \E r \in {SetItem(heap, tables[s], key, value, PANDAS_GE_30)} :
       Commit(r.h, [tables EXCEPT ![s] = r.t],
                 [op |-> "setitem", err |-> "none", self |-> s, dst |-> s, key |-> key,
                  arg |-> IF IsScalar(value) THEN "scalar" ELSE ArgKind(ValuesArg(value)),
                  argK |-> value.k, argCrs |-> ArgCrs(heap, ValuesArg(value)),
                  warn |-> r.warn],
                 KeepCopies({s} \cup Holders(value.arr), {}))

\* s.geometry = value: the table is left as the setter left it, also when
\* it raised.
DoGeometrySet(s, value) ==
    /\ Ready
    /\ IsGdf(s) /\ Unshared(s)
    /\ \E r \in {SetGeometryProp(heap, tables[s], value, PANDAS_GE_30)} :
       Commit(r.h, [tables EXCEPT ![s] = r.frame],
                 [op |-> "geometry_set", err |-> r.err, self |-> s, dst |-> s,
                  arg |-> IF IsScalar(value) THEN "scalar" ELSE ArgKind(ValuesArg(value)),
                  argK |-> value.k, name |-> value.name,
                  warn |-> IF IsScalar(value) THEN "none"
                           ELSE PersistOldDefault(tables[s]).warn],
                 KeepCopies({}, {s}))

\* A list of column names of s.  One that names "geometry" twice (dup) is
\* taken only when it selects no column of geometry dtype: every table the
\* model keeps has each name once.
KeyList(s, keys, dup) ==
    /\ keys # {}
    /\ \A n \in keys : HasCol(tables[s], n)
    /\ dup => "geometry" \in keys /\ keys \cap GeomCols(tables[s]) = {}

\* What a selection that returned r left in the slots: its result in dst.
Selected(r, dst) == IF r.err = "none" THEN [tables EXCEPT ![dst] = r.t] ELSE tables

\* dst = s[keys], keys a list of column names of s
DoGetItemList(s, dst, keys, dup) ==
    /\ Ready
    /\ IsGdf(s) /\ Unshared(s)
    /\ KeyList(s, keys, dup)
    /\ \E r \in {GetItemList(heap, tables[s], keys, dup, PANDAS_GE_30)} :
       Commit(r.h, Selected(r, dst),
                 [op |-> "getitem", err |-> r.err, self |-> s,
                  dst |-> IF r.err = "none" THEN dst ELSE NoneV,
                  keys |-> keys, dup |-> dup,
                  geoms |-> keys \cap GeomCols(tables[s])],
                 KeepCopies(IF r.err = "none" THEN {s, dst} ELSE {}, {}))

\* dst = s.loc[:, keys], keys a list of column names of s
DoTakeColumns(s, dst, keys, dup) ==
    /\ Ready
    /\ IsGdf(s) /\ Unshared(s)
    /\ KeyList(s, keys, dup)
    /\ \E r \in {TakeColumns(heap, tables[s], keys, dup, PANDAS_GE_30)} :
       Commit(r.h, Selected(r, dst),
                 [op |-> "take_cols", err |-> r.err, self |-> s,
                  dst |-> IF r.err = "none" THEN dst ELSE NoneV,
                  keys |-> keys, dup |-> dup,
                  geoms |-> keys \cap GeomCols(tables[s])],
                 KeepCopies(IF r.err = "none" THEN {s, dst} ELSE {}, {}))

\* s[key], key the name of a column of s
DoGetItemCol(s, key) ==
    /\ Ready
    /\ IsGdf(s) /\ Unshared(s)
    /\ HasCol(tables[s], key)
    /\ Commit(heap, tables,
              [op |-> "getitem_col", err |-> "none", self |-> s, key |-> key,
               result |-> GetItemCol(tables[s], key)],
              copyOf)

\* s.iloc[:, j] or s.loc[:, key] for one column: pandas takes the column and
\* builds the result with _constructor_sliced_from_mgr.
DoTakeCol(s, key) ==
    /\ Ready
    /\ IsGdf(s) /\ Unshared(s)
    /\ HasCol(tables[s], key)
    /\ Commit(heap, tables,
              [op |-> "take_col", err |-> "none", self |-> s, key |-> key,
               result |-> ConstructorSlicedFromMgr(ColumnSlice(tables[s], key))],
              copyOf)

\* s.iloc[i] or s.loc[label] for one row: pandas takes the row and builds the
\* result with _constructor_sliced_from_mgr.
DoTakeRow(s) ==
    /\ Ready
    /\ IsGdf(s) /\ Unshared(s)
    /\ Columns(tables[s]) # {}
    /\ Commit(heap, tables,
              [op |-> "take_row", err |-> "none", self |-> s,
               allGeom |-> Columns(tables[s]) = GeomCols(tables[s]),
               result |-> ConstructorSlicedFromMgr(RowSlice(tables[s]))],
              copyOf)

\* pandas.concat([s1, s2], axis=axis); the result is kept in `last`.
DoConcat(s1, s2, axis) ==
    /\ Ready
    /\ IsGdf(s1) /\ Live(s2) /\ Unshared(s1) /\ Unshared(s2)
    /\ \E r \in {Concat(heap, <<tables[s1], tables[s2]>>, axis, PANDAS_GE_30)} :
       Commit(heap, tables,
              [op |-> "concat", err |-> r.err, self |-> s1, other |-> s2, axis |-> axis,
               result |-> r,
               geometry |-> ConcatHasGeometry(<<tables[s1], tables[s2]>>, axis),
               count |-> ConcatCount(<<tables[s1], tables[s2]>>, axis, tables[s1].geo)],
              copyOf)

\* tables[s1].merge(tables[s2], left_index=True, right_index=True); the
\* result is kept in `last`.
DoMerge(s1, s2) ==
    /\ Ready
    /\ Live(s1) /\ Live(s2) /\ Unshared(s1) /\ Unshared(s2)
    /\ \E r \in {Merge(heap, tables[s1], tables[s2], PANDAS_GE_30)} :
       Commit(heap, tables,
              [op |-> "merge", err |-> r.err, self |-> s1, other |-> s2,
               result |-> r,
               geometry |-> MergeHasGeometry(tables[s1], tables[s2])],
              copyOf)

\* s.apply(func), how telling what func returns; the result is kept in
\* `last` (its class, active name, the kind of the column named as self's
\* active column, and its CRS).
DoApply(s, how) ==
    /\ Ready
    /\ IsGdf(s) /\ Unshared(s)
    /\ \E r \in {Apply(heap, tables[s], how, PANDAS_GE_30)} :
       /\ r.h[0] = Free
       /\ Commit(heap, tables,
                 [op |-> "apply", err |-> r.err, self |-> s, how |-> how,
                  series |-> r.series,
                  result |-> [cls |-> r.frame.cls, geo |-> r.frame.geo,
                              k |-> IF tables[s].geo \in Names
                                    THEN r.frame.cols[tables[s].geo].k ELSE "absent",
                              crs |-> CrsOrNone(r.h, r.frame)],
                  pre |-> IF tables[s].geo \in Names
                          THEN ApplyCol(heap, tables[s], tables[s].geo, how)
                          ELSE AbsentSpec,
                  had |-> CrsOrNone(heap, tables[s]),
                  srcI1 |-> I1(tables[s])],
                 copyOf)

\* t2 = t1.dissolve(by, aggfunc, as_index, dropna=dropna, method=method);
\* the rows of the result are kept in `last`.
DoDissolve(by, aggfunc, as_index, dropna, method, cast) ==
    /\ Ready
    /\ IsGdf("t1")
    /\ \E r \in {Dissolve(heap, tables["t1"], rows, by, aggfunc, as_index, dropna, cast,
                          PANDAS_GE_30)} :
       Commit(r.h, IF r.err = "none" THEN [tables EXCEPT !["t2"] = r.t] ELSE tables,
              [op |-> "dissolve", err |-> r.err, self |-> "t1",
               dst |-> IF r.err = "none" THEN "t2" ELSE NoneV,
               by |-> by, aggfunc |-> aggfunc, as_index |-> as_index, dropna |-> dropna,
               method |-> method, cast |-> cast, rows |-> r.rows],
              KeepCopies(IF r.err = "none" THEN {"t2"} ELSE {}, {}))

\* t2 = t1.explode(column, ignore_index, index_parts); the rows of the
\* result are kept in `last`.
DoExplode(column, ignore_index, index_parts) ==
    /\ Ready
    /\ IsGdf("t1")
    /\ \E r \in {Explode(heap, tables["t1"], rows, column, ignore_index, index_parts,
                         PANDAS_GE_30)} :
       Commit(r.h, IF r.err = "none" THEN [tables EXCEPT !["t2"] = r.t] ELSE tables,
              [op |-> "explode", err |-> r.err, self |-> "t1",
               dst |-> IF r.err = "none" THEN "t2" ELSE NoneV,
               column |-> column, ignore_index |-> ignore_index,
               index_parts |-> index_parts, rows |-> r.rows],
              KeepCopies(IF r.err = "none" THEN {"t2"} ELSE {}, {}))

\* The slot a call's result is bound to: the receiver itself when inplace,
\* else the second slot.
Dst(s, inplace) == IF inplace THEN s ELSE "t2"

\* The (data, geometry) pairs given to the constructor: every mapping and
\* every live table without a geometry argument, and some with one.  The first
\* slot is bound once, to a table made from a mapping or from nothing.
ConstructInputs ==
    {<<d, [kind |-> "none"]>> : d \in DataInputs}
    \cup {<<d, g>> : d \in {NoData, DictData(Mapping(GeomSpec("EPSG:4326"),
                                            GeomSpec("EPSG:3857"), PlainSpec), FALSE)}
                            \cup {TableData(tables[x]) : x \in LiveSlots},
                     g \in {NameArg("geom2"), ValuesArg(ListOfGeoms),
                            ValuesArg(ListOfInts), ValuesArg(ExtArray),
                            ValuesArg(NewArray("EPSG:4326"))}}

Next ==
    \/ \E in \in ConstructInputs, crs \in CRSopt :
        /\ in[1].kind # "table" => ~Live("t1")
        /\ DoConstruct(IF in[1].kind = "table" THEN "t2" ELSE "t1", in[1], in[2], crs)
    \/ \E s \in Slots, col \in GeometryArgs, drop, inplace \in BOOLEAN,
          crs \in {NoneV, "EPSG:3857"} :
        /\ drop => col.kind = "name" /\ crs = NoneV
        /\ DoSetGeometry(s, Dst(s, inplace), col, drop, inplace, crs)
    \/ \E s \in Slots, col \in Names, inplace \in BOOLEAN :
        DoRenameGeometry(s, Dst(s, inplace), col, inplace)
    \/ \E s \in Slots : DoCrsGet(s)
    \/ \E s \in Slots, value \in CRSopt : DoCrsSet(s, value)
    \/ \E s \in Slots, crs \in CRSs, inplace, ao \in BOOLEAN :
        DoSetCrs(s, Dst(s, inplace), crs, inplace, ao)
    \/ \E s \in Slots, crs \in CRSopt, inplace \in BOOLEAN :
        DoToCrs(s, Dst(s, inplace), crs, inplace)
    \/ \E s \in Slots, deep \in BOOLEAN : DoCopy(s, "t2", deep)
    \/ \E s \in Slots, key \in {"geometry", "geom2"}, value \in ValueInputs \cup {ScalarGeom} :
        DoSetItem(s, key, value)
    \/ \E s \in Slots, value \in ValueInputs \cup {ScalarGeom} : DoGeometrySet(s, value)
    \/ \E s \in Slots, keys \in SUBSET Names, dup \in BOOLEAN :
        DoGetItemList(s, "t2", keys, dup)
    \/ \E s \in Slots, keys \in SUBSET Names, dup \in BOOLEAN :
        DoTakeColumns(s, "t2", keys, dup)
    \/ \E s1, s2 \in Slots, axis \in {0, 1} : DoConcat(s1, s2, axis)
    \/ \E s1, s2 \in Slots : DoMerge(s1, s2)
    \/ \E s \in Slots, how \in ApplyHows : DoApply(s, how)
    \/ \E s \in Slots, key \in Names : DoGetItemCol(s, key)
    \/ \E s \in Slots, key \in Names : DoTakeCol(s, key)
    \/ \E s \in Slots : DoTakeRow(s)

Spec == Init /\ [][Next]_vars

\* ----------------------------------------------- the reshape operations

MaxRows == 3

\* The values of a row: the key in column "a" (which can be missing) and the
\* geometry in the active column, null, single or of two parts.
RowValues == [a : {"a", "b", NaN}, g : {Null, Geom(<<1>>), Geom(<<3, 2>>)}, o : {Null}]

RowInputs == UNION {[1..n -> RowValues] : n \in 0..MaxRows}

\* The geometry every row holds in a geometry column that is not the
\* active one.
OtherGeom == Geom(<<5, 4>>)

\* The rows rs as rows of the table t: a table without column "a" has no
\* key, one without an active column no geometry.
RowsOf(t, rs) ==
    [i \in DOMAIN rs |->
        [a |-> IF HasCol(t, "a") THEN rs[i].a ELSE "a",
         g |-> IF HasCol(t, t.geo) THEN rs[i].g ELSE Null,
         o |-> IF GeomCols(t) \ {t.geo} # {} THEN OtherGeom ELSE Null]]

\* The tables that are reshaped, as (data, geometry) of their construction:
\* one geometry column with and without a CRS, two geometry columns with
\* either of them active, an active column not named "geometry" beside a
\* plain column of that name, and no geometry column.
FrameInputs ==
    {<<DictData(Mapping(GeomSpec("EPSG:4326"), AbsentSpec, PlainSpec), FALSE),
       [kind |-> "none"]>>,
     <<DictData(Mapping(GeomSpec(NoneV), AbsentSpec, PlainSpec), FALSE),
       [kind |-> "none"]>>,
     <<DictData(Mapping(GeomSpec("EPSG:4326"), GeomSpec("EPSG:3857"), PlainSpec), FALSE),
       NameArg("geom2")>>,
     <<DictData(Mapping(PlainSpec, GeomSpec("EPSG:3857"), AbsentSpec), FALSE),
       NameArg("geom2")>>,
     <<DictData(Mapping(AbsentSpec, AbsentSpec, PlainSpec), FALSE),
       [kind |-> "none"]>>}

\* A table, constructed by a call made before, and its rows; the reshape is
\* the last call of the script.
RowInit ==
    /\ PANDAS_GE_30 \in BOOLEAN
    /\ ext = 1
    /\ copyOf = [s \in Slots |-> NoneV]
    /\ last = [op |-> "none", err |-> "none"]
    /\ calls = MaxCalls - 1
    /\ \E in \in FrameInputs, rs \in RowInputs :
        \E r \in {Construct(InitHeap, in[1], in[2], NoneV, PANDAS_GE_30)} :
           /\ r.err = "none"
           /\ tables = [s \in Slots |-> IF s = "t1" THEN r.t ELSE NoTable]
           /\ heap = Normalize(r.h, [s \in Slots |-> IF s = "t1" THEN r.t ELSE NoTable], 1)
           /\ rows = RowsOf(r.t, rs)

RowNext ==
    \/ \E by \in {NoneV, "a", "geom2"}, aggfunc \in {"first", "list"},
          as_index, dropna, cast \in BOOLEAN, method \in {"unary", "coverage"} :
        DoDissolve(by, aggfunc, as_index, dropna, method, cast)
    \/ \E column \in Names \cup {NoneV}, ignore_index, index_parts \in BOOLEAN :
        DoExplode(column, ignore_index, index_parts)

RowSpec == RowInit /\ [][RowNext]_vars

\* ------------------------------------------------------------- claims

Producers == {"construct", "set_geometry", "rename_geometry", "set_crs", "to_crs", "copy"}
CrsOps == {"set_crs", "crs_set", "set_geometry", "to_crs"}
NotInplaceOps == {"set_geometry", "rename_geometry", "set_crs", "to_crs"}

\* The CRS a caller reads from the table in slot s.
CrsOf(h, tabs, s) == CrsGet(h, tabs[s])
Reads(c) == [err |-> "none", crs |-> c]

\* C1, as stated: in every reachable state, a table whose active geometry
\* name is set has a column of that name, and the column has geometry dtype.
C1_I1Everywhere == \A s \in Slots : IsGdf(s) => I1(tables[s])

\* C1, amended: a successful construction, set_geometry, rename_geometry,
\* set_crs, to_crs or copy whose input tables satisfy I1 yields a table that
\* satisfies I1.
C1_ProducersKeepI1 ==
    (last.op \in Producers /\ last.err = "none" /\ last.srcI1) => I1(tables[last.dst])

\* A list of geometries was made the active column of a table.
C1_Witness ==
    /\ last.op = "set_geometry" /\ last.err = "none" /\ last.arg = "list"
    /\ tables[last.dst].geo # NoneV
    /\ I1(tables[last.dst])

\* C2: T.copy() has T's active geometry name and T's CRS, and no later
\* set_crs, crs assignment, set_geometry with crs or to_crs on the copy
\* changes T's CRS.
C2_CopyIsolated ==
    [][/\ (last'.op = "copy" /\ last'.deep) =>
            /\ tables'[last'.dst].geo = tables[last'.self].geo
            /\ CrsOf(heap', tables', last'.dst) = CrsOf(heap, tables, last'.self)
       /\ \A c \in Slots :
            (/\ copyOf[c] # NoneV
             /\ last'.op \in CrsOps /\ last'.self = c
             /\ last'.op = "set_geometry" => last'.crs # NoneV)
            => CrsOf(heap', tables', copyOf[c]) = CrsOf(heap, tables, copyOf[c])]_vars

\* C3: set_geometry, rename_geometry, set_crs and to_crs called with
\* inplace=False leave the receiver and every other live table as they were:
\* the same columns, the same active name and the same CRS tag on each
\* geometry column.
C3_NotInplaceLeavesTables ==
    [][(last'.op \in NotInplaceOps /\ ~last'.inplace)
       => \A s \in Slots \ {last'.dst} :
            View(heap', tables'[s]) = View(heap, tables[s])]_vars

\* The CRS the column or values resolved by the last set_geometry carried.
CarriedBy(rec) == IF rec.arg = "name" THEN rec.colCrs ELSE rec.argCrs

\* set_geometry(col, crs=X) where col resolves to geometry data that carries
\* a CRS other than X.
C4_Case ==
    /\ last.op = "set_geometry"
    /\ last.crs \in CRSs
    /\ CarriedBy(last) \in CRSs
    /\ CarriedBy(last) # last.crs

\* C4, as stated: set_geometry(col, crs=X) fails with a CRS-mismatch error
\* when the resolved column or values carry a CRS different from X.
C4_MismatchRaises == C4_Case => last.err = "CRSMismatch"

\* C4, amended: set_geometry(col, crs=X) succeeds when the resolved column
\* or values carry a CRS different from X, and the active column of the
\* result carries X.
C4_CrsOverrides ==
    C4_Case => last.err = "none" /\ CrsOf(heap, tables, last.dst) = Reads(last.crs)

\* An existing column tagged EPSG:4326 was set as geometry with crs=EPSG:3857.
C4_Witness ==
    C4_Case /\ last.arg = "name" /\ last.err = "none"
    /\ CrsOf(heap, tables, last.dst) = Reads("EPSG:3857")

\* set_geometry(values, crs=X) with geometry-typed values that carry no CRS.
C5_Case ==
    /\ last.op = "set_geometry"
    /\ last.arg \in {"array", "series"}
    /\ last.argCrs = NoneV
    /\ last.crs \in CRSs

\* C5: set_geometry(values, crs=X) with geometry-typed values that carry no
\* CRS succeeds whatever CRS the table had, the active column of the result
\* carries X, and the array passed in is still without a CRS.
C5_TagsACopy ==
    C5_Case =>
        /\ last.err = "none"
        /\ CrsOf(heap, tables, last.dst) = Reads(last.crs)
        /\ last.argArr # 0 => heap[last.argArr].crs \in {NoneV, "free"}

\* The caller's untagged GeometryArray was set, with crs=EPSG:3857, on a table
\* whose CRS was EPSG:4326; the caller's array is still untagged.
C5_Witness ==
    /\ C5_Case /\ last.err = "none"
    /\ last.had = "EPSG:4326"
    /\ last.argArr = ext /\ heap[ext].crs = NoneV
    /\ CrsOf(heap, tables, last.dst) = Reads("EPSG:3857")

\* A construction with a crs unequal to a CRS the incoming geometry data
\* carries (one column named "geometry").
C6_Case ==
    /\ last.op = "construct" /\ ~last.dup
    /\ last.crs \in CRSs
    /\ \E c \in last.incoming \cap CRSs : c # last.crs

\* C6: constructing a table with a crs unequal to a CRS carried by the
\* incoming geometry data raises the CRS-mismatch error and returns no table.
C6_ConstructMismatchRaises == C6_Case => last.err = "CRSMismatch" /\ last.dst = NoneV

\* A construction with a crs from geometry data none of which carries a CRS.
C7_Case ==
    /\ last.op = "construct" /\ ~last.dup
    /\ last.crs \in CRSs
    /\ last.incoming = {NoneV}

\* C7: constructing a table with crs=X from geometry data that carries no CRS
\* succeeds, on every construction path, and the table's CRS is X.
C7_UntaggedDataTagged ==
    C7_Case => last.err = "none" /\ CrsOf(heap, tables, last.dst) = Reads(last.crs)

\* A construction, geometry=None, from data with two columns named "geometry".
C8_Case == last.op = "construct" /\ last.dup /\ last.arg = "none"

\* C8: constructing a table from data with two columns named "geometry"
\* raises, returns no table, and no coercion to geometry was attempted.
C8_DuplicateGeometryRaises ==
    C8_Case => last.err = "DupGeometry" /\ ~last.coerced /\ last.dst = NoneV

\* Two "geometry" columns of geometry objects were refused.
C8_Witness == C8_Case /\ last.err = "DupGeometry" /\ last.incoming = {NoneV}

\* The table has no active geometry column.
NoActive(t) == ~(HasCol(t, t.geo) /\ t.cols[t.geo].k = "geom")

\* C9: for a table without an active geometry column, reading crs raises,
\* assigning crs and set_crs raise and leave every table as it was; and a
\* construction with a crs and no geometry data raises and yields no table.
C9_NoGeometryNoCrs ==
    [][/\ (last'.op = "crs_get" /\ NoActive(tables[last'.self]))
            => last'.err # "none"
       /\ (last'.op \in {"crs_set", "set_crs"} /\ NoActive(tables[last'.self]))
            => last'.err # "none" /\ tables' = tables /\ heap' = heap
       /\ (/\ last'.op = "construct" /\ last'.arg = "none"
           /\ last'.incoming = {} /\ last'.crs \in CRSs)
            => last'.err # "none" /\ tables' = tables]_vars

\* crs was assigned on a table whose active geometry name is unset, and the
\* assignment raised.
C9_Witness ==
    /\ last.op = "crs_set" /\ last.err = "NoGeometryForCRS"
    /\ tables[last.self].geo = NoneV

\* set_crs(Y) on a table whose CRS is X, X and Y set and different.
C10_Case ==
    /\ last.op = "set_crs"
    /\ last.had \in CRSs /\ last.crs \in CRSs
    /\ last.crs # last.had

\* C10: on a table with CRS X, set_crs(Y) for another Y raises without
\* allow_override; with allow_override=True it succeeds and the crs of the
\* result is Y.
C10_SetCrsOverride ==
    C10_Case =>
        IF last.allow_override
        THEN last.err = "none" /\ CrsOf(heap, tables, last.dst) = Reads(last.crs)
        ELSE last.err = "AlreadyHasCRS"

\* set_crs(Y, allow_override=True) retagged a table whose CRS was X.
C10_Witness ==
    /\ C10_Case /\ last.allow_override /\ ~last.inplace
    /\ last.err = "none"
    /\ CrsOf(heap, tables, last.dst) = Reads(last.crs)

\* The kinds of the columns of a table: which columns it has, and their
\* dtypes.
Kinds(t) == [n \in Names |-> t.cols[n].k]

\* The array object behind column n of a table.
ColCell(h, t, n) == h[t.cols[n].arr]

\* Columns n and m of the table are backed by one array object.
SharesArray(t, n, m) ==
    /\ n # m /\ n \in GeomCols(t) /\ m \in GeomCols(t)
    /\ t.cols[n].arr = t.cols[m].arr

\* set_crs returned: before is the receiver, after the result.
SetCrsFrameEffect(hb, before, ha, after, crs) ==
    /\ Kinds(after) = Kinds(before)
    /\ after.geo = before.geo
    /\ ColCell(ha, after, after.geo).crs = crs
    /\ \A n \in GeomCols(before) : ColCell(ha, after, n).xy = ColCell(hb, before, n).xy
    /\ \A n \in GeomCols(before) \ {before.geo} :
          ColCell(ha, after, n).crs = ColCell(hb, before, n).crs

\* C11: set_crs changes only the CRS tag of the active geometry column: the
\* values of every geometry column, the CRS tags of the other geometry
\* columns, the columns and the active name are after the call what they
\* were before.
C11_SetCrsOnlyRetagsActive ==
    [][(last'.op = "set_crs" /\ last'.err = "none")
        => SetCrsFrameEffect(heap, tables[last'.self], heap', tables'[last'.dst],
                             last'.crs)]_vars

\* C11, for tables none of whose other geometry columns is backed by the
\* array object of the active column.
C11_SetCrsOnlyRetagsUnshared ==
    [][(/\ last'.op = "set_crs" /\ last'.err = "none"
        /\ \A n \in Names : ~SharesArray(tables[last'.self], tables[last'.self].geo, n))
        => SetCrsFrameEffect(heap, tables[last'.self], heap', tables'[last'.dst],
                             last'.crs)]_vars

\* set_crs retagged a table that has a second geometry column, with another
\* CRS, which kept it.
C11_Witness ==
    /\ last.op = "set_crs" /\ last.err = "none" /\ last.inplace
    /\ last.had # last.crs
    /\ \E n \in GeomCols(tables[last.dst]) \ {tables[last.dst].geo} :
          ColCell(heap, tables[last.dst], n).crs # last.crs
    /\ CrsOf(heap, tables, last.dst) = Reads(last.crs)

\* to_crs returned: before is the receiver, after the result.
ToCrsFrameEffect(hb, before, ha, after, crs) ==
    /\ Kinds(after) = Kinds(before)
    /\ after.geo = before.geo
    /\ ColCell(ha, after, after.geo).crs = crs
    /\ ColCell(ha, after, after.geo).xy =
          IF ColCell(hb, before, before.geo).crs = crs
          THEN ColCell(hb, before, before.geo).xy
          ELSE Append(ColCell(hb, before, before.geo).xy,
                      <<ColCell(hb, before, before.geo).crs, crs>>)
    /\ \A n \in GeomCols(before) \ {before.geo} :
          ColCell(ha, after, n) = ColCell(hb, before, n)

\* C12: to_crs replaces only the active geometry column, by its values
\* reprojected and tagged with the target CRS; every other geometry column
\* keeps its values and its CRS tag, and the active name stays.
C12_ToCrsReplacesOnlyActive ==
    [][(last'.op = "to_crs" /\ last'.err = "none")
        => /\ ToCrsFrameEffect(heap, tables[last'.self], heap', tables'[last'.dst],
                               last'.crs)
           /\ \A s \in Slots \ {last'.dst} : View(heap', tables'[s]) = View(heap, tables[s])]_vars

\* to_crs reprojected the active column of a table that has a second
\* geometry column.
C12_Witness ==
    /\ last.op = "to_crs" /\ last.err = "none"
    /\ Len(ColCell(heap, tables[last.dst], tables[last.dst].geo).xy) = 2
    /\ GeomCols(tables[last.dst]) \ {tables[last.dst].geo} # {}
    /\ CrsOf(heap, tables, last.dst) = Reads(last.crs)

SlicedOps == {"getitem_col", "take_col", "take_row"}

\* C13: a single-column value produced from a table by selection or slicing
\* is a geometry series exactly when its dtype is geometry and it is no row
\* proxy; a row of a table whose columns are all of geometry dtype is not
\* made a geometry series.
C13_SlicedNarrowing ==
    last.op \in SlicedOps =>
        /\ last.result.cls = "GeoSeries"
              <=> (last.result.dtype = "geometry" /\ last.result.index # "columns")
        /\ (last.op = "take_row" /\ last.allGeom) => last.result.cls = "Series"

\* A row was taken from a table all of whose columns hold geometries.
C13_Witness ==
    /\ last.op = "take_row" /\ last.allGeom
    /\ last.result.dtype = "geometry" /\ last.result.cls = "Series"

MultiColumnOps == {"getitem", "take_cols"}

\* C14: a multi-column value produced from a table by selection or by the
\* generic reconstruction path is produced without an error, and is a
\* geometry-aware table exactly when one of its columns is of geometry
\* dtype (a plain table when none is), whatever the column names are.
C14_GeoAwareIffGeometry ==
    last.op \in MultiColumnOps =>
        /\ last.err = "none"
        /\ IsGdf(last.dst) <=> GeomCols(tables[last.dst]) # {}

\* C14, for lists that name every column once.
C14_GeoAwareIffGeometryUnique ==
    (last.op \in MultiColumnOps /\ ~last.dup) =>
        /\ last.err = "none"
        /\ IsGdf(last.dst) <=> GeomCols(tables[last.dst]) # {}

\* A selection of columns none of which holds geometries returned a plain
\* table.
C14_Witness ==
    /\ last.op \in MultiColumnOps /\ ~last.dup /\ last.err = "none"
    /\ last.geoms = {}
    /\ tables[last.dst].cls = "DataFrame"

\* R = T[keys] returned a geometry-aware table.
C15_Case(rec, r) == rec.op = "getitem" /\ rec.err = "none" /\ r.cls = "GeoDataFrame"

C16_ConcatNameOfFirst ==
    last.op = "concat" =>
        /\ last.count > 1 => last.err # "none"
        /\ last.err = "none" => last.result.geo = tables[last.self].geo

\* C16: a geometry-aware result of a concat has the active name of the
\* first input, which at most one of its columns has; a concat of columns
\* one of which is of geometry dtype returns a geometry-aware table, or
\* fails when more than one column has that name.
C16_ConcatGeoNameOfFirst ==
    last.op = "concat" =>
        /\ (last.err = "none" /\ last.result.cls = "GeoDataFrame")
              => (last.result.geo = tables[last.self].geo /\ last.count <= 1)
        /\ last.geometry =>
              IF last.count > 1
              THEN last.err = "AmbiguousGeometry"
              ELSE last.err = "none" /\ last.result.cls = "GeoDataFrame"

\* Two tables with different active names were concatenated; the result has
\* the name of the first.
C16_Witness ==
    /\ last.op = "concat" /\ last.geometry /\ last.err = "none"
    /\ tables[last.self].geo # NoneV
    /\ IsGdf(last.other) /\ tables[last.other].geo # tables[last.self].geo
    /\ last.result.geo = tables[last.self].geo

\* A concat along the columns failed: two columns have the active name.
C16_WitnessAmbiguous ==
    /\ last.op = "concat" /\ last.axis = 1 /\ last.count > 1
    /\ last.err = "AmbiguousGeometry"

\* C17 as stated: the result of a merge has the active name of the left
\* input, whatever the right input's.
C17_MergeNameOfLeft ==
    last.op = "merge" =>
        /\ last.err = "none"
        /\ last.result.geo = tables[last.self].geo

\* C17: a geometry-aware result of a merge has the active name of the left
\* input, whatever the right input's; a merge whose left input is
\* geometry-aware and whose columns hold one of geometry dtype returns a
\* geometry-aware table.
C17_MergeGeoNameOfLeft ==
    last.op = "merge" =>
        /\ last.err = "none"
        /\ last.result.cls = "GeoDataFrame" => last.result.geo = tables[last.self].geo
        /\ (last.geometry /\ tables[last.self].cls = "GeoDataFrame")
              => last.result.cls = "GeoDataFrame"

\* A merge of two geometry-aware tables with different active names returned
\* a geometry-aware table.
C17_Witness ==
    /\ last.op = "merge"
    /\ last.result.cls = "GeoDataFrame"
    /\ tables[last.self].geo # NoneV
    /\ tables[last.other].cls = "GeoDataFrame"
    /\ tables[last.other].geo \notin {NoneV, tables[last.self].geo}

\* A merge whose left input has no active name and whose right input has one.
C17_WitnessNone ==
    /\ last.op = "merge"
    /\ last.result.cls = "GeoDataFrame"
    /\ tables[last.self].geo = NoneV
    /\ tables[last.other].geo # NoneV
\* The distinct values of column "a" in rows rs; a missing key is no value.
DistinctValues(rs) == {rs[i].a : i \in DOMAIN rs} \ {NaN}

\* The key of a row of a dissolved table: its index, or with as_index=False
\* the column grouped by.
DissolvedKey(row, as_index) == IF as_index THEN row.ix[1] ELSE row.by

\* The union of the geometries of the rows of rs whose key is k.
GroupUnion(rs, k) == UnionAll({rs[i].g : i \in {j \in DOMAIN rs : rs[j].a = k}})

DissolvedBy == last.op = "dissolve" /\ last.by = "a" /\ last.dropna /\ last.err = "none"

DissolveValid ==
    /\ last.op = "dissolve"
    /\ CrsGet(heap, tables["t1"]).err = "none"
    /\ last.by # NoneV => (last.by # tables["t1"].geo /\ HasCol(tables["t1"], last.by))

\* C19: for every by, aggfunc, as_index and method the result of dissolve
\* is a geometry-aware table with the active name and the CRS of the input.
C19_DissolveKeepsNameAndCrs ==
    DissolveValid =>
        /\ last.err = "none"
        /\ tables["t2"].cls = "GeoDataFrame"
        /\ tables["t2"].geo = tables["t1"].geo
        /\ CrsGet(heap, tables["t2"]).err = "none"
        /\ CrsGet(heap, tables["t2"]).crs = CrsGet(heap, tables["t1"]).crs

\* A dissolve, with a list of functions and as_index=False, of a table with
\* a CRS whose active column is not named "geometry".
C19_Witness ==
    /\ DissolveValid /\ last.err = "none"
    /\ last.by = "a" /\ last.aggfunc = "list" /\ ~last.as_index /\ last.method = "coverage"
    /\ tables["t1"].geo = "geom2"
    /\ HasCol(tables["t1"], "geometry")
    /\ CrsGet(heap, tables["t2"]).crs = "EPSG:3857"

\* An explode of the active geometry column of a table with one row, whose
\* geometry is not null.
ExplodedOne ==
    /\ last.op = "explode" /\ last.err = "none"
    /\ last.column \in {NoneV, tables["t1"].geo}
    /\ tables["t1"].cols[tables["t1"].geo].k = "geom"
    /\ Len(rows) = 1
    /\ ~rows[1].g.null

\* C20: exploding a table with one row that holds a geometry of N parts
\* yields N rows, each with the values of the other columns of the row and
\* one part, the parts in the order they have in the geometry.
C20_ExplodeOneRowPerPart ==
    ExplodedOne =>
        /\ Len(last.rows) = Len(rows[1].g.parts)
        /\ \A j \in DOMAIN last.rows :
              /\ last.rows[j].a = rows[1].a
              /\ last.rows[j].o = rows[1].o
              /\ last.rows[j].g = Geom(<<rows[1].g.parts[j]>>)

\* An explode of one row with a geometry of two parts, beside another
\* geometry column.
C20_Witness ==
    /\ ExplodedOne
    /\ rows[1].a = "b"
    /\ rows[1].o = OtherGeom
    /\ rows[1].g = Geom(<<3, 2>>)
    /\ Len(last.rows) = 2
    /\ last.rows[1].g = Geom(<<3>>) /\ last.rows[2].g = Geom(<<2>>)
\* An explode of a geometry column that returned, the index not ignored.
ExplodedIndexed ==
    /\ last.op = "explode" /\ last.err = "none"
    /\ last.column \in {NoneV, tables["t1"].geo}
    /\ tables["t1"].cols[tables["t1"].geo].k = "geom"
    /\ last.ignore_index = IgnoreIndexDefault

\* The labels of the rows of rs in the index of the table.
Labels(rs) == {Label(i) : i \in DOMAIN rs}

\* The number of rows of rs before the j-th that have its first index label.
OrdinalOf(rs, j) == Cardinality({i \in 1..(j - 1) : rs[i].ix[1] = rs[j].ix[1]})

\* C21 as stated: explode called without ignore_index and index_parts
\* indexes each row by (original index, part ordinal).
C21_DefaultAppendsOrdinal ==
    (ExplodedIndexed /\ last.index_parts = IndexPartsDefault) =>
        \A j \in DOMAIN last.rows :
            /\ Len(last.rows[j].ix) = 2
            /\ last.rows[j].ix[1] \in Labels(rows)
            /\ last.rows[j].ix[2] = OrdinalOf(last.rows, j)

\* C21: explode called without ignore_index and index_parts, which is
\* index_parts=False, keeps only the original index, repeated for every
\* part; index_parts=True indexes each row by (original index, part
\* ordinal).
C21_IndexPolicy ==
    ExplodedIndexed =>
        \A j \in DOMAIN last.rows :
            /\ last.rows[j].ix[1] \in Labels(rows)
            /\ last.rows[j].a = rows[last.rows[j].ix[1] \div 10].a
            /\ IF last.index_parts
               THEN /\ Len(last.rows[j].ix) = 2
                    /\ last.rows[j].ix[2] = OrdinalOf(last.rows, j)
               ELSE Len(last.rows[j].ix) = 1

\* A default explode of two rows, the second of two parts: its label is
\* repeated.
C21_Witness ==
    /\ ExplodedIndexed /\ last.index_parts = IndexPartsDefault
    /\ Len(rows) = 2
    /\ rows[1].g = Geom(<<1>>) /\ rows[2].g = Geom(<<3, 2>>)
    /\ Len(last.rows) = 3
    /\ last.rows[2].ix = <<Label(2)>> /\ last.rows[3].ix = <<Label(2)>>
\* An explode of a geometry column that is not the active one.
ExplodedOther ==
    /\ last.op = "explode" /\ last.err = "none"
    /\ last.column # NoneV
    /\ last.column # tables["t1"].geo
    /\ tables["t1"].cols[last.column].k = "geom"

\* The number of parts of the geometries in the other geometry column of
\* the rows of rs from position i on.
RECURSIVE OtherParts(_, _)
OtherParts(rs, i) ==
    IF i > Len(rs) THEN 0 ELSE Len(rs[i].o.parts) + OtherParts(rs, i + 1)

\* C22: explode(column=c), c a geometry column that is not the active one,
\* yields one row for each part of the geometry each row holds in c, with
\* the values of the other columns, the active geometry among them, as they
\* were.
C22_ExplodeNamedColumn ==
    ExplodedOther =>
        /\ Len(last.rows) = OtherParts(rows, 1)
        /\ \A i \in DOMAIN rows : \A p \in DOMAIN rows[i].o.parts :
              \E j \in DOMAIN last.rows :
                 /\ last.rows[j].o = Geom(<<rows[i].o.parts[p]>>)
                 /\ last.rows[j].g = rows[i].g
                 /\ last.rows[j].a = rows[i].a
\* ------------------------------------------------------------------ C23

\* The result of the last apply is a geometry-aware table whose active
\* column is the one named as self's, holding geometries, tagged with the
\* CRS self had when pandas' result carried none.
Reattached ==
    /\ last.err = "none"
    /\ last.result.cls = "GeoDataFrame"
    /\ last.result.geo = tables[last.self].geo
    /\ last.result.k = "geom"
    /\ (last.had # NoneV /\ last.pre.crs = NoneV) => last.result.crs = last.had

C24_CoercionAsymmetric ==
    /\ (last.op = "set_geometry" /\ last.argK = "plain") => last.err = "TypeError"
    /\ (last.op = "construct" /\ last.arg = "none" /\ last.crs = NoneV
        /\ last.data # "GeoDataFrame" /\ ~last.dup /\ last.geomK = "plain") =>
            /\ last.err = "none"
            /\ tables[last.dst].geo = NoneV
            /\ tables[last.dst].cols["geometry"].k = "plain"

\* A set_geometry naming a column of non-geometries that raised TypeError,
\* on a table that was constructed from data whose "geometry" column holds
\* them and so has no active name.
C24_Witness ==
    /\ last.op = "set_geometry" /\ last.arg = "name" /\ last.argK = "plain"
    /\ last.err = "TypeError"
    /\ tables[last.self].geo = NoneV
    /\ tables[last.self].cols["geometry"].k = "plain"

\* A table constructed from data whose "geometry" column holds
\* non-geometries: no error, no active name, the column plain.
C24_WitnessConstruct ==
    /\ last.op = "construct" /\ last.arg = "none" /\ last.geomK = "plain"
    /\ last.err = "none" /\ last.dst # NoneV
    /\ tables[last.dst].geo = NoneV
    /\ tables[last.dst].cols["geometry"].k = "plain"

\* ------------------------------------------------------------------ C25

\* The call that was just made worked in place on last'.self and raised.
RaisedInPlace(ops) ==
    /\ last'.op \in ops
    /\ last'.err # "none"
    /\ last'.op \in {"set_geometry", "rename_geometry", "set_crs"} => last'.inplace

C30_FailedSetGeometryKeepsTable ==
    [][(RaisedInPlace({"set_geometry"}) /\ last'.err = "TypeError") =>
           /\ Columns(tables'[last'.self]) = Columns(tables[last'.self])
           /\ tables'[last'.self].geo = tables[last'.self].geo]_vars

\* ------------------------------------------------------------------ C26

\* The class of the exception behind an error of the model, from the raise
\* statements of set_geometry (lines 417, 422, 424) and rename_geometry
\* (line 522).
ExceptionClass(err) ==
    IF err \in {"UnknownColumn", "SharedName", "NotOneDimensional", "ColumnExists"}
    THEN "ValueError"
    ELSE err

\* The last set_geometry raised and returned no table.
NoTableReturned == last.err # "none" /\ (~last.inplace => last.dst = NoneV)

\* What C26 says of a name shared by several columns and of a
\* two-dimensional argument: a structural error, and no table.
StructuralErrors ==
    /\ (last.arg = "name" /\ last.argK = "shared") =>
           last.err = "SharedName" /\ NoTableReturned
    /\ last.arg = "block" => last.err = "NotOneDimensional" /\ NoTableReturned

\* C26 as stated: set_geometry(name) with a name that is no column fails
\* with a KeyError-class error, with a name shared by several columns or a
\* two-dimensional argument with a structural error; no table is returned.
C26_UnknownNameKeyError ==
    last.op = "set_geometry" =>
        /\ (last.arg = "name" /\ last.argK = "absent") =>
               ExceptionClass(last.err) = "KeyError" /\ NoTableReturned
        /\ StructuralErrors

\* C26, amended: the unknown name fails with ValueError ("Unknown column"),
\* the KeyError of the lookup being caught; the rest as stated.
C26_UnknownNameValueError ==
    last.op = "set_geometry" =>
        /\ (last.arg = "name" /\ last.argK = "absent") =>
               /\ last.err = "UnknownColumn"
               /\ ExceptionClass(last.err) = "ValueError"
               /\ NoTableReturned
        /\ StructuralErrors

\* A set_geometry naming a column the table does not have, refused.
C26_Witness ==
    /\ last.op = "set_geometry" /\ last.arg = "name" /\ last.argK = "absent"
    /\ last.err = "UnknownColumn" /\ ~last.inplace /\ last.dst = NoneV

\* A set_geometry naming a column name that several columns share, refused.
C26_WitnessShared ==
    /\ last.op = "set_geometry" /\ last.arg = "name" /\ last.argK = "shared"
    /\ last.err = "SharedName"

\* A set_geometry handed a two-dimensional argument, refused.
C26_WitnessBlock ==
    last.op = "set_geometry" /\ last.arg = "block" /\ last.err = "NotOneDimensional"

\* ------------------------------------------------------------------ C27

\* The step is a call of rename_geometry on a table that has an active
\* geometry column.
RenamesGeometry ==
    /\ last'.op = "rename_geometry" /\ calls' = calls + 1
    /\ tables[last'.self].geo # NoneV /\ I1(tables[last'.self])

\* The table the call returned (self when inplace) holds the former active
\* column under the new name and under no other, as the active column, with
\* the values and the CRS it had.
Renamed(self, dst, col) ==
    /\ dst # NoneV
    /\ tables'[dst].geo = col
    /\ ~HasCol(tables'[dst], tables[self].geo)
    /\ tables'[dst].cols[col].k = "geom"
    /\ heap'[tables'[dst].cols[col].arr] = heap[tables[self].cols[tables[self].geo].arr]
    /\ \A n \in Names \ {col, tables[self].geo} :
           View(heap', tables'[dst]).cols[n] = View(heap, tables[self]).cols[n]

\* C27: rename_geometry(col) on a table with an active geometry column
\* raises ValueError and leaves the table unchanged when col already names
\* a column; otherwise the result holds the former active column under col,
\* none under the old name, col is the active name, and the values and the
\* CRS of the geometry are the same as before.
C27_RenameGeometry ==
    [][RenamesGeometry =>
           IF HasCol(tables[last'.self], last'.col)
           THEN /\ last'.err = "ColumnExists"
                /\ ExceptionClass(last'.err) = "ValueError"
                /\ View(heap', tables'[last'.self]) = View(heap, tables[last'.self])
           ELSE /\ last'.err = "none"
                /\ Renamed(last'.self, last'.dst, last'.col)]_vars

\* A rename_geometry that returned the table with the geometry column under
\* the new name, and its CRS kept.
C27_Witness ==
    /\ last.op = "rename_geometry" /\ last.err = "none" /\ last.srcI1
    /\ tables[last.dst].geo = last.col
    /\ tables[last.dst].cols[last.col].k = "geom"
    /\ CrsOrNone(heap, tables[last.dst]) = "EPSG:4326"

\* A rename_geometry to a name the table already has, refused.
C27_WitnessExists ==
    last.op = "rename_geometry" /\ last.err = "ColumnExists" /\ last.srcI1

\* ------------------------------------------------------------------ C28

\* The step assigns geometries that carry no CRS (a list, an untagged
\* array, or one geometry for every row) to the active column of last'.self.
AssignsUntagged ==
    /\ last'.op = "setitem" /\ calls' = calls + 1
    /\ last'.key = tables[last'.self].geo
    /\ last'.argK = "obj" \/ (last'.argK = "geom" /\ last'.argCrs = NoneV)

\* C28: T[active_name] = values, the values geometries without a CRS (a
\* scalar geometry included), leaves T.crs and the active name as they were.
C28_SetItemKeepsCrs ==
    [][AssignsUntagged =>
           /\ CrsGet(heap', tables'[last'.self]).err = "none"
           /\ CrsGet(heap', tables'[last'.self]).crs = CrsOrNone(heap, tables[last'.self])
           /\ tables'[last'.self].geo = tables[last'.self].geo]_vars

\* A scalar geometry assigned to the active column of a table in
\* EPSG:4326: the table still reads that CRS.
C28_Witness ==
    /\ last.op = "setitem" /\ last.arg = "scalar"
    /\ last.key = tables[last.self].geo
    /\ CrsOrNone(heap, tables[last.self]) = "EPSG:4326"

\* ------------------------------------------------------------------ C29

\* The step assigns to the key "geometry" of a table with no active name
\* and no column "geometry", by item assignment or through the property.
AssignsDefaultName ==
    /\ calls' = calls + 1
    /\ \/ last'.op = "setitem" /\ last'.key = "geometry"
       \/ last'.op = "geometry_set"
    /\ last'.arg # "scalar"
    /\ tables[last'.self].geo = NoneV
    /\ ~HasCol(tables[last'.self], "geometry")

\* C29: on such a table, values that can be coerced to geometries make
\* "geometry" the active name and a deprecation warning is issued; values
\* that cannot leave the active name unset and are stored as a plain
\* column.
C29_DefaultNameAssignment ==
    [][AssignsDefaultName =>
           IF last'.argK \in {"obj", "geom"}
           THEN /\ last'.err = "none"
                /\ tables'[last'.self].geo = "geometry"
                /\ last'.warn = "FutureWarning"
           ELSE /\ last'.err = "none"
                /\ tables'[last'.self].geo = NoneV
                /\ tables'[last'.self].cols["geometry"].k = "plain"]_vars

====
